---- MODULE Spec2Model ----
(***************************************************************************)
(* Model of the enhanced customer website bulk updater                     *)
(* (scripts/update-websites.js, enhanced variant): the resolution          *)
(* pipeline (domain guessing, search scoring, AI fallback), the directory  *)
(* protocol client and the batch processor.                                *)
(*                                                                         *)
(* Strings that the program inspects character by character (URLs, host    *)
(* names, company names, titles) are sequences of one-character strings.   *)
(* Strings the program only passes around or compares as a whole           *)
(* (error messages, credentials, API keys) are TLA+ strings.               *)
(***************************************************************************)
EXTENDS Integers, Sequences, FiniteSets, TLC

(***************************************************************************)
(* Character and string helpers (JavaScript String methods).               *)
(***************************************************************************)
\* the letters: an upper-case letter and its lower-case form share an index
Letters ==
  [upper |-> <<"A","B","C","D","E","F","G","H","I","J","K","L","M",
               "N","O","P","Q","R","S","T","U","V","W","X","Y","Z">>,
   lower |-> <<"a","b","c","d","e","f","g","h","i","j","k","l","m",
               "n","o","p","q","r","s","t","u","v","w","x","y","z">>]

IsUpper(c) == \E k \in DOMAIN Letters.upper : Letters.upper[k] = c

IsLower(c) == \E k \in DOMAIN Letters.lower : Letters.lower[k] = c

IsDigit(c) == c \in {"0","1","2","3","4","5","6","7","8","9"}

IsAlpha(c) == IsUpper(c) \/ IsLower(c)

\* \w of a JavaScript regular expression
IsWordChar(c) == IsAlpha(c) \/ IsDigit(c) \/ c = "_"

\* \s of a JavaScript regular expression (the model's only white space is " ")
IsSpace(c) == c = " "

LowerChar(c) ==
  IF IsUpper(c) THEN Letters.lower[CHOOSE k \in DOMAIN Letters.upper : Letters.upper[k] = c]
  ELSE c

\* String.prototype.toLowerCase
ToLowerCase(s) == [k \in DOMAIN s |-> LowerChar(s[k])]

\* s.slice(from - 1): the suffix of s that starts at position from (1-based)
Drop(s, n) == SubSeq(s, n + 1, Len(s))

Take(s, n) == SubSeq(s, 1, n)

\* String.prototype.startsWith
StartsWith(s, p) == Len(p) <= Len(s) /\ Take(s, Len(p)) = p

\* p occurs in s at position k (1-based)
OccursAt(s, p, k) == k + Len(p) - 1 <= Len(s) /\ SubSeq(s, k, k + Len(p) - 1) = p

\* String.prototype.includes
Includes(s, p) == \E k \in 1..(Len(s) + 1) : OccursAt(s, p, k)

\* String.prototype.indexOf, 1-based; 0 when p does not occur
IndexOf(s, p) ==
  IF Includes(s, p)
  THEN CHOOSE k \in 1..(Len(s) + 1) :
         OccursAt(s, p, k) /\ \A j \in 1..(k - 1) : ~OccursAt(s, p, j)
  ELSE 0

RECURSIVE TrimStart(_)
TrimStart(s) == IF s # <<>> /\ IsSpace(s[1]) THEN TrimStart(Tail(s)) ELSE s

RECURSIVE TrimEnd(_)
TrimEnd(s) ==
  IF s # <<>> /\ IsSpace(s[Len(s)]) THEN TrimEnd(Take(s, Len(s) - 1)) ELSE s

\* String.prototype.trim
Trim(s) == TrimEnd(TrimStart(s))

\* s.split(c)[0]: the part of s before the first occurrence of the character c
SplitFirst(s, c) ==
  IF \E k \in DOMAIN s : s[k] = c
  THEN Take(s, (CHOOSE k \in DOMAIN s : s[k] = c /\ \A j \in 1..(k - 1) : s[j] # c) - 1)
  ELSE s

\* order-preserving removal of duplicates: [...new Set(list)]
AddNew(set, x) == IF \E k \in DOMAIN set : set[k] = x THEN set ELSE Append(set, x)

RECURSIVE Unique(_)
Unique(list) ==
  IF list = <<>> THEN <<>>
  ELSE AddNew(Unique(Take(list, Len(list) - 1)), list[Len(list)])

S_www == <<"w","w","w",".">>

S_http == <<"h","t","t","p">>

S_httpsSlashes == <<"h","t","t","p","s",":","/","/">>

S_dotcom == <<".","c","o","m">>

(***************************************************************************)
(* new URL(u).hostname, for inputs over letters, digits and the            *)
(* punctuation . - _ : / ? # and the space.  The result is                 *)
(* [ok |-> FALSE] when the constructor throws and                          *)
(* [ok |-> TRUE, hostname |-> h] otherwise.                                *)
(***************************************************************************)
\* position of the ":" that ends a valid scheme, 0 when u has no scheme
SchemeEndAt(u, k) ==
  IF u # <<>> /\ IsAlpha(u[1]) /\ k > 1 /\ \A j \in 1..(k - 1) : IsAlpha(u[j]) \/ IsDigit(u[j]) \/ u[j] \in {"+", "-", "."}
  THEN k ELSE 0

SchemeEnd(u) == SchemeEndAt(u, IndexOf(u, <<":">>))

RECURSIVE SkipSlashes(_)
SkipSlashes(s) == IF s # <<>> /\ s[1] = "/" THEN SkipSlashes(Tail(s)) ELSE s

\* the authority: everything before the first "/", "?" or "#"
RECURSIVE AuthorityOf(_)
AuthorityOf(s) ==
  IF s = <<>> \/ s[1] \in {"/", "?", "#"} THEN <<>>
  ELSE <<s[1]>> \o AuthorityOf(Tail(s))

DigitValue(c) == CHOOSE n \in 0..9 : <<"0","1","2","3","4","5","6","7","8","9">>[n + 1] = c

RECURSIVE DigitsToNat(_)
DigitsToNat(s) ==
  IF s = <<>> THEN 0
  ELSE 10 * DigitsToNat(Take(s, Len(s) - 1)) + DigitValue(s[Len(s)])

AllDigits(s) == \A k \in DOMAIN s : IsDigit(s[k])

\* code points a host may not contain (those of the model's alphabet)
IsForbiddenHostChar(c) == c \in {" ", "/", ":", "?", "#"}

\* labels of a host, split at "."
RECURSIVE Labels(_)
Labels(h) ==
  IF ~(\E k \in DOMAIN h : h[k] = ".") THEN <<h>>
  ELSE <<SplitFirst(h, ".")>> \o Labels(Drop(h, IndexOf(h, <<".">>)))

\* the host's last label is a number: the host is parsed as an IPv4 address
LastLabel(ls) ==
  IF Len(ls) > 1 /\ ls[Len(ls)] = <<>> THEN ls[Len(ls) - 1] ELSE ls[Len(ls)]

\* host parser of a special scheme: fails on an empty host, on a forbidden
\* code point and on a numeric last label that is no IPv4 address (the
\* inputs hold no well-formed IPv4 address); otherwise lower-cases the host
ParseSpecialHost(h) ==
  IF h = <<>> \/ (\E k \in DOMAIN h : IsForbiddenHostChar(h[k])) \/ (LastLabel(Labels(h)) # <<>> /\ AllDigits(LastLabel(Labels(h))))
  THEN [ok |-> FALSE]
  ELSE [ok |-> TRUE, hostname |-> ToLowerCase(h)]

\* opaque host of a non-special scheme: kept as written, may be empty
ParseOpaqueHost(h) ==
  IF \E k \in DOMAIN h : IsForbiddenHostChar(h[k])
  THEN [ok |-> FALSE]
  ELSE [ok |-> TRUE, hostname |-> h]

\* host and port of an authority, split at the first ":"
ParseHostPort(auth, host, special) ==
  IF Len(host) < Len(auth) /\ (host = <<>> \/ ~(AllDigits(Drop(auth, Len(host) + 1)) /\ DigitsToNat(Drop(auth, Len(host) + 1)) <= 65535))
  THEN [ok |-> FALSE]
  ELSE IF special THEN ParseSpecialHost(host) ELSE ParseOpaqueHost(host)

ParseAuthority(auth, special) == ParseHostPort(auth, SplitFirst(auth, ":"), special)

\* the host of what follows the scheme and its ":"
ParseAfterScheme(scheme, rest) ==
  IF scheme \in {S_http, S_http \o <<"s">>}
  THEN ParseAuthority(AuthorityOf(SkipSlashes(rest)), TRUE)
  ELSE IF StartsWith(rest, <<"/", "/">>)
       THEN ParseAuthority(AuthorityOf(Drop(rest, 2)), FALSE)
       ELSE [ok |-> TRUE, hostname |-> <<>>]

URLHostname(u) ==
  IF SchemeEnd(u) = 0 THEN [ok |-> FALSE]
  ELSE ParseAfterScheme(ToLowerCase(Take(u, SchemeEnd(u) - 1)), Drop(u, SchemeEnd(u)))

(***************************************************************************)
(* Domain normalization                                                    *)
(***************************************************************************)
\* url.replace(/^(https?:\/\/)?(www\.)?/i, ''): strips one optional scheme
\* prefix and then one optional "www." prefix, case-insensitively
StripScheme(url) ==
  IF StartsWith(ToLowerCase(url), S_httpsSlashes) THEN Drop(url, Len(S_httpsSlashes))
  ELSE IF StartsWith(ToLowerCase(url), S_http \o <<":","/","/">>) THEN Drop(url, Len(S_http) + 3)
  ELSE url

\* if (CONFIG.forceWww && !host.startsWith('www.')) host = `www.${host}`
WithWww(host, forceWww) ==
  IF forceWww /\ ~StartsWith(host, S_www) THEN S_www \o host ELSE host

\* if (CONFIG.forceWww && !/^www\./i.test(url)) url = `www.${url}`
WithWwwAnyCase(url, forceWww) ==
  IF forceWww /\ ~StartsWith(ToLowerCase(url), S_www) THEN S_www \o url ELSE url

\* normalizeDomain for the trimmed url and what new URL made of it
normalizeParsed(url, parsed, forceWww) ==
  IF parsed.ok THEN WithWww(parsed.hostname, forceWww)
  ELSE WithWwwAnyCase(SplitFirst(IF StartsWith(ToLowerCase(StripScheme(url)), S_www)
                                  THEN Drop(StripScheme(url), Len(S_www))
                                  ELSE StripScheme(url), "/"),
                       forceWww)

normalizeDomain(raw, forceWww) ==
  IF raw = <<>> THEN <<>>
  ELSE normalizeParsed(Trim(raw), URLHostname(IF StartsWith(Trim(raw), S_http) THEN Trim(raw) ELSE S_httpsSlashes \o Trim(raw)), forceWww)

(***************************************************************************)
(* Tier 1: pattern generation                                              *)
(***************************************************************************)
\* the alternatives of the corporate-suffix expression, in its order
CorporateSuffixes ==
  << <<"i","n","c">>, <<"l","l","c">>, <<"c","o","r","p">>, <<"l","t","d">>,
     <<"l","i","m","i","t","e","d">>,
     <<"i","n","c","o","r","p","o","r","a","t","e","d">>,
     <<"c","o","r","p","o","r","a","t","i","o","n">>,
     <<"c","o","m","p","a","n","y">>, <<"c","o">>,
     <<"l",".","l",".","c",".">>, <<"l",".","l",".","c">> >>

\* \b between positions p - 1 and p of s (1-based; p may be Len(s) + 1)
WordBoundary(s, p) ==
  LET before == p > 1 /\ IsWordChar(s[p - 1])
      after  == p <= Len(s) /\ IsWordChar(s[p])
  IN before # after

\* length of the match of /\b(suffix)\b\.?/ at position p of s, 0 when none
SuffixHits(s, p) ==
  {a \in DOMAIN CorporateSuffixes :
     /\ OccursAt(s, CorporateSuffixes[a], p)
     /\ WordBoundary(s, p + Len(CorporateSuffixes[a]))}

\* length of the match of the alternative suffix with its optional "."
WithDot(s, p, suffix) ==
  IF p + Len(suffix) <= Len(s) /\ s[p + Len(suffix)] = "." THEN Len(suffix) + 1
  ELSE Len(suffix)

SuffixMatchAmong(s, p, hits) ==
  IF ~WordBoundary(s, p) \/ hits = {} THEN 0
  ELSE WithDot(s, p, CorporateSuffixes[CHOOSE a \in hits : \A b \in hits : a <= b])

SuffixMatchLen(s, p) == SuffixMatchAmong(s, p, SuffixHits(s, p))

\* s.replace(/\b(inc|llc|...)\b\.?/gi, '') from position p on
RECURSIVE StripSuffixesFrom(_, _)
\* a match of length n at p is removed; without one the character stays
StripMatch(s, p, n) ==
  IF n > 0 THEN StripSuffixesFrom(s, p + n)
  ELSE <<s[p]>> \o StripSuffixesFrom(s, p + 1)

StripSuffixesFrom(s, p) ==
  IF p > Len(s) THEN <<>> ELSE StripMatch(s, p, SuffixMatchLen(s, p))

\* s.replace(/^the\s+/i, '')
StripLeadingThe(s) ==
  IF StartsWith(ToLowerCase(s), <<"t","h","e"," ">>) THEN TrimStart(Drop(s, 3)) ELSE s

cleanCompanyName(name) ==
  Trim(SelectSeq(StripLeadingThe(StripSuffixesFrom(ToLowerCase(name), 1)),
                 LAMBDA c : IsLower(c) \/ IsDigit(c) \/ IsSpace(c) \/ c = "-"))

\* s.replace(/\s+/g, '-')
RECURSIVE Hyphenate(_)
Hyphenate(s) ==
  IF s = <<>> THEN <<>>
  ELSE IF IsSpace(s[1]) THEN <<"-">> \o Hyphenate(TrimStart(s))
       ELSE <<s[1]>> \o Hyphenate(Tail(s))

\* the patterns pushed for the three forms of the name and the city
patternList(noSpaces, hyphenated, cityClean, hasCity) ==
  << noSpaces \o S_dotcom, hyphenated \o S_dotcom,
     SelectSeq(noSpaces, LAMBDA c : ~IsDigit(c)) \o S_dotcom >>
  \o (IF hasCity THEN << cityClean \o noSpaces \o S_dotcom,
                         noSpaces \o cityClean \o S_dotcom >>
      ELSE <<>>)

patternsOfCleaned(cleaned, city) ==
  patternList(SelectSeq(cleaned, LAMBDA c : ~IsSpace(c)), Hyphenate(cleaned),
              SelectSeq(ToLowerCase(city), LAMBDA c : IsLower(c) \/ IsDigit(c)),
              city # <<>>)

\* unique.map(d => CONFIG.forceWww && !d.startsWith('www.') ? `www.${d}` : d)
prefixAll(unique, forceWww) == [k \in DOMAIN unique |-> WithWww(unique[k], forceWww)]

generateDomainPatterns(companyName, city, forceWww) ==
  prefixAll(Unique(patternsOfCleaned(cleanCompanyName(companyName), city)), forceWww)

(***************************************************************************)
(* Directory protocol client                                               *)
(***************************************************************************)
\* A directory response is [status, data] or a transport error.  The data
\* of a getCustomer response is the function from the tags it holds to
\* their values (the CustomerNumber element holds the nested tags
\* CustomerNumber/ID and CustomerNumber/Code); the data of any other
\* response is its text.
\* soapRequest: resolves with the data of a 2xx response, rejects otherwise
soapRequest(response) ==
  IF response.kind = "error" THEN [ok |-> FALSE, message |-> response.message]
  ELSE IF response.status >= 200 /\ response.status < 300 THEN [ok |-> TRUE, data |-> response.data]
  ELSE [ok |-> FALSE,
        message |-> "HTTP " \o ToString(response.status) \o ": " \o response.data]

\* parseXmlValue, parseXmlCode, parseXmlId: the value nested in the tag,
\* trimmed, or the empty string when the tag is not found
parseXmlValue(xml, tagName) ==
  IF tagName \in DOMAIN xml THEN Trim(xml[tagName]) ELSE <<>>

parseXmlCode(xml, tagName) ==
  IF (tagName \o "/Code") \in DOMAIN xml THEN Trim(xml[tagName \o "/Code"]) ELSE <<>>

parseXmlId(xml, tagName) ==
  IF (tagName \o "/ID") \in DOMAIN xml THEN Trim(xml[tagName \o "/ID"]) ELSE <<>>

\* the record getCustomer builds from a response body
decodeCustomer(xml) ==
  [id |-> parseXmlId(xml, "CustomerNumber"),
   code |-> parseXmlCode(xml, "CustomerNumber"),
   name |-> parseXmlValue(xml, "CustomerName"),
   city |-> parseXmlValue(xml, "City"),
   state |-> parseXmlValue(xml, "State"),
   phone |-> parseXmlValue(xml, "Phone1"),
   currentWebsite |-> parseXmlValue(xml, "WebSite")]

\* the request body saveCustomerWebsite sends
saveRequest(customerId, customerCode, websiteUrl) ==
  [id |-> IF Trim(customerId) # <<>> THEN customerId ELSE <<"0">>,
   code |-> IF Trim(customerCode) # <<>> THEN customerCode ELSE <<>>,
   website |-> ToLowerCase(websiteUrl)]

\* a saveCustomerWebsite that takes every 2xx response for a success
saveSucceededAlways(data) == TRUE

\* the value saveCustomerWebsite returns for a response body
saveSucceeded(data) ==
  /\ data # <<>>
  /\ Includes(ToLowerCase(data),
              <<"s","a","v","e","c","u","s","t","o","m","e","r","r","e","s","u","l","t">>)

(***************************************************************************)
(* Tier 2: search result scoring                                           *)
(***************************************************************************)
badDomains ==
  << <<"f","a","c","e","b","o","o","k",".","c","o","m">>,
     <<"l","i","n","k","e","d","i","n",".","c","o","m">>,
     <<"t","w","i","t","t","e","r",".","c","o","m">>,
     <<"y","e","l","p",".","c","o","m">>,
     <<"y","e","l","l","o","w","p","a","g","e","s",".","c","o","m">>,
     <<"b","b","b",".","o","r","g">> >>

S_official == <<"o","f","f","i","c","i","a","l">>

\* a scoring without the penalty for social media and directories
scoreItemUnpenalized(item) ==
  (IF Includes(item.link, S_dotcom) THEN 10 ELSE 0)
  + (IF Includes(ToLowerCase(item.title), S_official)
        \/ Includes(ToLowerCase(item.title), <<"h","o","m","e">>)
     THEN 5 ELSE 0)
  + (IF Includes(ToLowerCase(item.snippet), S_official \o <<" ","w","e","b","s","i","t","e">>)
     THEN 5 ELSE 0)

\* a scoring whose penalty for social media and directories is 10
scoreItemLightPenalty(item) ==
  (IF Includes(item.link, S_dotcom) THEN 10 ELSE 0)
  + (IF Includes(ToLowerCase(item.title), S_official)
        \/ Includes(ToLowerCase(item.title), <<"h","o","m","e">>)
     THEN 5 ELSE 0)
  + (IF Includes(ToLowerCase(item.snippet), S_official \o <<" ","w","e","b","s","i","t","e">>)
     THEN 5 ELSE 0)
  - (IF \E k \in DOMAIN badDomains : Includes(item.link, badDomains[k]) THEN 10 ELSE 0)

scoreItem(item) ==
  LET url == item.link
      title == ToLowerCase(item.title)
      snippet == ToLowerCase(item.snippet)
  IN (IF Includes(url, S_dotcom) THEN 10 ELSE 0)
     + (IF Includes(title, S_official) \/ Includes(title, <<"h","o","m","e">>)
        THEN 5 ELSE 0)
     + (IF Includes(snippet, S_official \o <<" ","w","e","b","s","i","t","e">>)
        THEN 5 ELSE 0)
     - (IF \E k \in DOMAIN badDomains : Includes(url, badDomains[k]) THEN 20 ELSE 0)

\* x inserted before the entries that score the same: an unstable sort
RECURSIVE InsertBeforeEqual(_, _)
InsertBeforeEqual(sorted, x) ==
  IF sorted = <<>> THEN <<x>>
  ELSE IF sorted[1].score > x.score
       THEN <<sorted[1]>> \o InsertBeforeEqual(Tail(sorted), x)
       ELSE <<x>> \o sorted

\* x inserted into the descending list, after every entry that does not
\* score less: the sort is stable
RECURSIVE InsertByScore(_, _)
InsertByScore(sorted, x) ==
  IF sorted = <<>> THEN <<x>>
  ELSE IF sorted[1].score >= x.score
       THEN <<sorted[1]>> \o InsertByScore(Tail(sorted), x)
       ELSE <<x>> \o sorted

\* scored.sort((a, b) => b.score - a.score)
RECURSIVE sortByScore(_)
sortByScore(list) ==
  IF list = <<>> THEN <<>>
  ELSE InsertByScore(sortByScore(Take(list, Len(list) - 1)), list[Len(list)])

Null == [null |-> TRUE]

\* what searchGoogleCSE resolves with for a response of the search service
\* the items with their scores, best first
scoreItems(items) ==
  sortByScore([k \in DOMAIN items |->
                 [url |-> items[k].link, title |-> ToLowerCase(items[k].title),
                  score |-> scoreItem(items[k])]])

\* the result for the sorted items and what new URL made of the best link
bestResult(scored, u, forceWww) ==
  IF scored[1].score < 0 \/ ~u.ok THEN Null
  ELSE [url |-> normalizeDomain(u.hostname, forceWww),
        confidence |-> IF scored[1].score >= 10 THEN "high" ELSE "medium",
        source |-> "google_cse",
        allResults |-> [k \in DOMAIN scored |-> scored[k].url]]

rankedResult(scored, forceWww) == bestResult(scored, URLHostname(scored[1].url), forceWww)

searchResult(response, forceWww) ==
  IF response.kind # "json" \/ response.items = <<>> THEN Null
  ELSE rankedResult(scoreItems(response.items), forceWww)

(***************************************************************************)
(* Tier 3: AI fallback                                                     *)
(***************************************************************************)
S_NOT_FOUND == <<"N","O","T","_","F","O","U","N","D">>

\* a searchWithOpenAI that takes only the bare sentinel as not found
openaiResultBareSentinel(response, forceWww) ==
  IF response.kind # "json" THEN Null
  ELSE IF Trim(response.content) = S_NOT_FOUND THEN Null
  ELSE [url |-> normalizeDomain(Trim(response.content), forceWww),
        confidence |-> "medium",
        source |-> "openai"]

\* a searchWithOpenAI that returns its candidate with high confidence
openaiResultHigh(response, forceWww) ==
  IF response.kind # "json" THEN Null
  ELSE IF Includes(Trim(response.content), S_NOT_FOUND) THEN Null
  ELSE [url |-> normalizeDomain(Trim(response.content), forceWww),
        confidence |-> "high",
        source |-> "openai"]

\* what searchWithOpenAI resolves with for a response of the completion
\* service: a transport error, an unparseable or malformed body, an error
\* object and the sentinel all give null
openaiResult(response, forceWww) ==
  IF response.kind # "json" THEN Null
  ELSE LET content == Trim(response.content)
       IN IF Includes(content, S_NOT_FOUND) THEN Null
          ELSE [url |-> normalizeDomain(content, forceWww),
                confidence |-> "medium",
                source |-> "openai"]

(***************************************************************************)
(* Inputs of the model                                                     *)
(***************************************************************************)
\* longest input list of a run
MaxRows == 2

Code_WE01 == <<"W","E","0","1">>

Code_AB12 == <<"A","B","1","2">>

Codes == {Code_WE01, Code_AB12}

\* a code whose record has a city, and digits and a space in its name
\* JavaScript's undefined, for a website an input row does not carry
Undefined == <<"undefined">>

S_pinned == <<"P","i","n",".","c","o","m","/","x">>

\* rows of an input file: a bare code, or a code with a website field
FileRows ==
  {[code |-> Code_WE01, website |-> Undefined],
   [code |-> Code_WE01, website |-> S_pinned],
   [code |-> Code_AB12, website |-> <<>>]}

\* rows of --codes and of the codes prompt: bare codes
CodeRows == {[code |-> c, website |-> Undefined] : c \in Codes}

ListsOf(S) == UNION {[1..n -> S] : n \in 0..MaxRows}

\* what the directory holds for a code
DirectoryEntry(c) ==
  IF c = Code_WE01
  THEN [id |-> <<"7">>, name |-> <<"W","e","b","o","w","e","r","s",","," ","I","n","c",".">>,
        city |-> <<>>, state |-> <<"M","D">>, phone |-> <<>>]
  ELSE IF c = Code_AB12
  THEN [id |-> <<"9">>, name |-> <<"A"," ","B">>,
        city |-> <<>>, state |-> <<>>, phone |-> <<"5","5","5">>]
  ELSE [id |-> <<"4">>, name |-> <<"4","P"," ","W">>,
        city |-> <<"G">>, state |-> <<>>, phone |-> <<>>]

\* body of a getCustomer response that holds every tag
FullXml(c, site) ==
  LET d == DirectoryEntry(c)
  IN ("CustomerNumber/ID" :> d.id) @@ ("CustomerNumber/Code" :> c)
     @@ ("CustomerName" :> d.name) @@ ("City" :> d.city) @@ ("State" :> d.state)
     @@ ("Phone1" :> d.phone) @@ ("WebSite" :> site)

\* the same body without the CustomerNumber element
NoNumberXml(c, site) ==
  LET d == DirectoryEntry(c)
  IN ("CustomerName" :> d.name) @@ ("City" :> d.city) @@ ("State" :> d.state)
     @@ ("Phone1" :> d.phone) @@ ("WebSite" :> site)

\* responses of the directory to getCustomer for code c
FetchResponses(c) ==
  {[kind |-> "http", status |-> 200, data |-> FullXml(c, <<>>)],
   [kind |-> "http", status |-> 200, data |-> FullXml(c, <<"w","w","w",".","o","l","d",".","c","o","m">>)],
   [kind |-> "http", status |-> 200, data |-> NoNumberXml(c, <<>>)],
   [kind |-> "http", status |-> 200, data |-> [t \in {} |-> <<>>]],
   [kind |-> "http", status |-> 500, data |-> "Invalid customer code"],
   [kind |-> "error", message |-> "socket hang up"]}

\* what the directory may answer for code c when the row before it in the
\* list was for c too and ended as updated with result r: the record with
\* the website of that row's saveCustomer request
StoredResponses(c, list, n, r) ==
  IF n >= 1 /\ n <= Len(list) /\ list[n].code = c
     /\ r # Null /\ r.success /\ ~r.skipped /\ r.url # Undefined
  THEN {[kind |-> "http", status |-> 200, data |-> FullXml(c, ToLowerCase(r.url))]}
  ELSE {}

\* responses of the directory to saveCustomer
SaveResponses ==
  {[kind |-> "http", status |-> 200,
    data |-> <<"<","S","a","v","e","C","u","s","t","o","m","e","r","R","e","s","u","l","t","/",">">>],
   [kind |-> "http", status |-> 200, data |-> <<"<","F","a","u","l","t","/",">">>],
   [kind |-> "http", status |-> 500, data |-> "Invalid customer code"],
   [kind |-> "error", message |-> "socket hang up"]}

Item(link, title, snippet) == [link |-> link, title |-> title, snippet |-> snippet]

\* responses of the search service
SearchResponses ==
  {[kind |-> "error"],
   [kind |-> "json", items |-> <<>>],
   [kind |-> "json", items |-> <<Item(S_httpsSlashes \o <<"A","c","m","e",".","c","o","m","/">>, <<"A","c","m","e">>, <<>>)>>],
   [kind |-> "json", items |-> <<Item(S_httpsSlashes \o <<"a","c","m","e",".","o","r","g","/","a">>, <<"H","o","m","e">>, <<>>)>>],
   [kind |-> "json", items |-> <<Item(S_httpsSlashes \o badDomains[1] \o <<"/","a","c","m","e">>, <<"A","c","m","e">>, <<>>)>>],
   [kind |-> "json", items |-> <<Item(S_httpsSlashes \o badDomains[1] \o <<"/","a","c","m","e">>, <<"H","o","m","e">>,
                                      <<"T","h","e"," ">> \o S_official \o <<" ","w","e","b","s","i","t","e">>)>>]}

\* responses of the completion service
OpenaiResponses ==
  {[kind |-> "error"],
   [kind |-> "json", content |-> S_NOT_FOUND],
   [kind |-> "json", content |-> <<"w","w","w",".","a","i",".","c","o","m"," ">>]}

\* what the user may type at a prompt for a website
ManualEntries == {<<>>, <<"M","a","n","u","a","l",".","c","o","m">>}

\* what the user may type at the existing-website prompt
ExistsAnswers == {<<"o">>, <<"E">>, <<"s"," ">>}

\* what the user may type at the use-this-website prompt
UseAnswers == {<<"Y">>, <<"n">>, <<"e">>}

\* what the user may type at the confirm-save prompt
ConfirmAnswers == {<<"y">>, <<"n">>}

\* what the user may type at a y/n prompt of websites.ts
ContinueAnswers == {<<"y">>, <<"Y">>, <<"n">>, <<" ","y">>, <<>>}

(***************************************************************************)
(* State                                                                   *)
(***************************************************************************)
VARIABLES
  args,          \* the parsed command line (with the input file's rows)
  CONFIG,        \* the shared configuration object
  pc,            \* the await the program is suspended at
  caller,        \* who awaits processCustomer: "list" or "single"
  rows,          \* customerCodes of processCustomerList
  opts,          \* opts of processCustomerList
  i,             \* loop index of processCustomerList
  results,       \* the tally of processCustomerList, Null before it starts
  detailed,      \* the detailed outcomes of processCustomerList
  code,          \* customerCode of the running processCustomer
  website,       \* opts.website of the running processCustomer
  customer,      \* the record getCustomer decoded
  tiers,         \* the tiers findWebsite invoked and what each returned
  searched,      \* findWebsite has returned for the record
  result,        \* the candidate findWebsite returned
  websiteUrl,    \* the website chosen for the record
  normalizedUrl, \* its normalization
  patterns,      \* the candidates guessDomain iterates over
  pidx,          \* position of guessDomain in patterns
  res,           \* what the last processCustomer returned
  calls,         \* external calls and prompts issued for the record so far
  lastSave,      \* the last saveCustomer request sent for the record
  lookup,        \* how guessDomain's last name lookup ended ("none" outside its loop)
  typed,         \* what the user typed at the record's prompts, in order
  reply,         \* the response to the record's saveCustomer request
  outFile,       \* the results file, Null while not written
  call,          \* a function applied on its own: its name and arguments
  ret            \* the values that function returned, in order

vars == <<args, CONFIG, pc, caller, rows, opts, i, results, detailed, code, website,
          customer, tiers, searched, result, websiteUrl, normalizedUrl, patterns, pidx, res, calls,
          lastSave, lookup, typed, reply, outFile, call, ret>>

\* the part of the state that one step of a record's processing may change
Cur ==
  [pc |-> pc, i |-> i, results |-> results, detailed |-> detailed,
   customer |-> customer, tiers |-> tiers, searched |-> searched,
   result |-> result, websiteUrl |-> websiteUrl,
   normalizedUrl |-> normalizedUrl, patterns |-> patterns, pidx |-> pidx,
   res |-> res, calls |-> calls, lastSave |-> lastSave,
   lookup |-> lookup, typed |-> typed, reply |-> reply]

\* a step of a record's processing that turns the search tier off in CONFIG
\* once searchGoogleCSE has been called
BecomesConfiguring(st) ==
  /\ pc' = st.pc
  /\ i' = st.i
  /\ results' = st.results
  /\ detailed' = st.detailed
  /\ customer' = st.customer
  /\ tiers' = st.tiers
  /\ searched' = st.searched
  /\ result' = st.result
  /\ websiteUrl' = st.websiteUrl
  /\ normalizedUrl' = st.normalizedUrl
  /\ patterns' = st.patterns
  /\ pidx' = st.pidx
  /\ res' = st.res
  /\ calls' = st.calls
  /\ lastSave' = st.lastSave
  /\ lookup' = st.lookup
  /\ typed' = st.typed
  /\ reply' = st.reply
  /\ CONFIG' = [CONFIG EXCEPT !.enableGoogleSearch = @ /\ st.calls.search = 0]
  /\ UNCHANGED <<args, caller, rows, opts, code, website, outFile, call, ret>>

Becomes(st) ==
  /\ pc' = st.pc
  /\ i' = st.i
  /\ results' = st.results
  /\ detailed' = st.detailed
  /\ customer' = st.customer
  /\ tiers' = st.tiers
  /\ searched' = st.searched
  /\ result' = st.result
  /\ websiteUrl' = st.websiteUrl
  /\ normalizedUrl' = st.normalizedUrl
  /\ patterns' = st.patterns
  /\ pidx' = st.pidx
  /\ res' = st.res
  /\ calls' = st.calls
  /\ lastSave' = st.lastSave
  /\ lookup' = st.lookup
  /\ typed' = st.typed
  /\ reply' = st.reply
  /\ UNCHANGED <<args, CONFIG, caller, rows, opts, code, website, outFile, call, ret>>

\* (the probes of guessDomain are counted by pidx)
NoCalls == [fetch |-> 0, search |-> 0, ai |-> 0, save |-> 0, prompt |-> 0]

Called(st, what) == [st EXCEPT !.calls[what] = @ + 1]

\* JavaScript truthiness of an optional string
Truthy(v) == v # Undefined /\ v # <<>>

(***************************************************************************)
(* Configuration and command line                                          *)
(***************************************************************************)
\* CONFIG as built at load time from an environment
initialConfig(env) ==
  [username |-> env.username, password |-> env.password, companyID |-> env.companyID,
   forceWww |-> TRUE,
   googleCseKey |-> env.googleCseKey, googleCx |-> env.googleCseKey,
   openaiKey |-> env.openaiKey,
   enableDomainGuessing |-> TRUE, enableGoogleSearch |-> TRUE, enableOpenAI |-> FALSE]

\* main: Apply CLI args to config
applyArgs(config, a) ==
  [config EXCEPT
     !.username = IF a.username # "" THEN a.username ELSE @,
     !.password = IF a.password # "" THEN a.password ELSE @,
     !.companyID = IF a.companyID # "" THEN a.companyID ELSE @,
     !.enableOpenAI = IF a.enableOpenai THEN TRUE ELSE @,
     !.enableDomainGuessing = IF a.disableDomainGuessing THEN FALSE ELSE @,
     !.enableGoogleSearch = IF a.disableGoogle THEN FALSE ELSE @,
     !.forceWww = IF a.noForceWww THEN FALSE ELSE @]

missingCredentials(config) ==
  config.username = "" \/ config.password = "" \/ config.companyID = ""

(***************************************************************************)
(* Batch processor: tally and return of processCustomer                    *)
(***************************************************************************)
Skipped == [success |-> TRUE, skipped |-> TRUE, url |-> Undefined, error |-> ""]

Updated(url) == [success |-> TRUE, skipped |-> FALSE, url |-> url, error |-> ""]

\* { success: saved, skipped: false }
Saved(saved) == [success |-> saved, skipped |-> FALSE, url |-> Undefined, error |-> ""]

Failed(message) == [success |-> FALSE, skipped |-> FALSE, url |-> Undefined, error |-> message]

\* a loop body that leaves the failed counter alone
tallyWithoutFailed(counters, r) ==
  IF r.skipped THEN [counters EXCEPT !.skipped = @ + 1]
  ELSE IF r.success THEN [counters EXCEPT !.updated = @ + 1]
  ELSE counters

\* a loop body that counts a failed record as skipped too
tallyFailedTwice(counters, r) ==
  IF r.skipped THEN [counters EXCEPT !.skipped = @ + 1]
  ELSE IF r.success THEN [counters EXCEPT !.updated = @ + 1]
  ELSE [counters EXCEPT !.failed = @ + 1, !.skipped = @ + 1]

\* the counters after the loop body has tallied r
tally(counters, r) ==
  IF r.skipped THEN [counters EXCEPT !.skipped = @ + 1]
  ELSE IF r.success THEN [counters EXCEPT !.updated = @ + 1]
  ELSE [counters EXCEPT !.failed = @ + 1]

\* a loop body that pushes an updated row whether or not a url came back
detailUnguarded(rowsSoFar, c, r) ==
  IF r.skipped THEN rowsSoFar
  ELSE IF r.success
       THEN Append(rowsSoFar, [code |-> c, url |-> r.url, error |-> "", status |-> "updated"])
       ELSE Append(rowsSoFar, [code |-> c, url |-> Undefined,
                               error |-> IF r.error # "" THEN r.error ELSE "unknown",
                               status |-> "failed"])

\* the detailed outcomes after the loop body has tallied r for customer c
detail(rowsSoFar, c, r) ==
  IF r.skipped THEN rowsSoFar
  ELSE IF r.success
       THEN IF Truthy(r.url)
            THEN Append(rowsSoFar, [code |-> c, url |-> r.url, error |-> "", status |-> "updated"])
            ELSE rowsSoFar
       ELSE Append(rowsSoFar, [code |-> c, url |-> Undefined,
                               error |-> IF r.error # "" THEN r.error ELSE "unknown",
                               status |-> "failed"])

\* processCustomer returns r to its caller
Return(st, r) == [st EXCEPT !.res = r, !.pc = "return"]

\* a catch block that drops the error's message
CaughtSilently(st, message) == Return(st, Failed(""))

\* the catch block of processCustomer: the error's message is returned
Caught(st, message) == Return(st, Failed(message))

\* a loop that a skipped record ends
FinishCancelling(st) ==
  IF caller = "list"
  THEN [st EXCEPT !.pc = IF st.res.skipped THEN "done" ELSE "loop", !.i = @ + 1,
                  !.results = tally(@, st.res), !.detailed = detail(@, code, st.res)]
  ELSE [st EXCEPT !.pc = "done"]

\* the caller receives st.res: processCustomerList tallies it and moves on
\* to the next row; a single run ends
Finish(st) ==
  IF caller = "list"
  THEN [st EXCEPT !.pc = "loop", !.i = @ + 1,
                  !.results = tally(@, st.res), !.detailed = detail(@, code, st.res)]
  ELSE [st EXCEPT !.pc = "done"]

(***************************************************************************)
(* processCustomer: the code between two awaits.  Each operator runs one   *)
(* stretch of synchronous code and leaves in pc where control goes next:   *)
(* an await, or the label of the next stretch.                             *)
(***************************************************************************)
\* the request saveCustomerWebsite sends for the record is issued
IssueSave(st, url, label) ==
  [Called(st, "save") EXCEPT
     !.pc = label, !.lastSave = saveRequest(st.customer.id, st.customer.code, url)]

\* a processCustomer that asks for confirmation in every mode
ConfirmPrompting(st) == [Called(st, "prompt") EXCEPT !.pc = "q_confirm"]

\* websiteUrl is chosen: normalize it, ask for confirmation or save
\* the normalized website is confirmed at the prompt or saved at once
Confirm(st) ==
  IF ~opts.nonInteractive /\ ~opts.autoConfirm
  THEN [Called(st, "prompt") EXCEPT !.pc = "q_confirm"]
  ELSE IssueSave(st, st.normalizedUrl, "save")

Prepare(st) ==
  IF ~Truthy(st.websiteUrl) \/ Trim(st.websiteUrl) = <<>> THEN Return(st, Skipped)
  ELSE Confirm([st EXCEPT !.normalizedUrl = normalizeDomain(st.websiteUrl, CONFIG.forceWww)])

\* a decision that asks for a manual entry in unattended mode too
DecidePrompting(st) ==
  IF st.result # Null
  THEN IF opts.nonInteractive
       THEN IF st.result.confidence = "high" \/ opts.force
            THEN [st EXCEPT !.websiteUrl = st.result.url, !.pc = "prepare"]
            ELSE Return(st, Skipped)
       ELSE [Called(st, "prompt") EXCEPT !.pc = "q_use"]
  ELSE [Called(st, "prompt") EXCEPT !.pc = "q_manual"]

\* a decision without the confidence gate
DecideUngated(st) ==
  IF st.result # Null
  THEN IF opts.nonInteractive
       THEN [st EXCEPT !.websiteUrl = st.result.url, !.pc = "prepare"]
       ELSE [Called(st, "prompt") EXCEPT !.pc = "q_use"]
  ELSE IF opts.nonInteractive
       THEN Return(st, Skipped)
       ELSE [Called(st, "prompt") EXCEPT !.pc = "q_manual"]

\* findWebsite returned st.result: the decision of processCustomer
Decide(st) ==
  IF st.result # Null
  THEN IF opts.nonInteractive
       THEN IF st.result.confidence = "high" \/ opts.force
            THEN [st EXCEPT !.websiteUrl = st.result.url, !.pc = "prepare"]
            ELSE Return(st, Skipped)
       ELSE [Called(st, "prompt") EXCEPT !.pc = "q_use"]
  ELSE IF opts.nonInteractive
       THEN Return(st, Skipped)
       ELSE [Called(st, "prompt") EXCEPT !.pc = "q_manual"]

\* a tier function returned r to findWebsite
Returned(st, tier, r) ==
  [st EXCEPT !.tiers = Append(@, [tier |-> tier, candidate |-> r]), !.lookup = "none"]

\* findWebsite returns r to processCustomer
Found(st, r) == [st EXCEPT !.result = r, !.searched = TRUE, !.pc = "decide"]

\* findWebsite after searchWithOpenAI returned r
Tier3Returned(st, r) == Found(Returned(st, "openai", r), r)

\* a tier 3 that ignores its enable flag
Tier3Unflagged(st) ==
  IF CONFIG.openaiKey # ""
  THEN [Called(st, "ai") EXCEPT !.pc = "openai"]
  ELSE Tier3Returned(st, Null)

\* findWebsite from tier 3 on
Tier3(st) ==
  IF CONFIG.enableOpenAI
  THEN IF CONFIG.openaiKey # ""
       THEN [Called(st, "ai") EXCEPT !.pc = "openai"]
       ELSE Tier3Returned(st, Null)
  ELSE Found(st, Null)

\* a findWebsite for which a search without result is an error of the record
Tier2ReturnedFailing(st, r) ==
  IF r # Null THEN Found(Returned(st, "google_cse", r), r)
  ELSE Caught(st, "search failed")

\* findWebsite after searchGoogleCSE returned r
Tier2Returned(st, r) ==
  IF r # Null THEN Found(Returned(st, "google_cse", r), r)
  ELSE [Returned(st, "google_cse", r) EXCEPT !.pc = "tier3"]

\* findWebsite from tier 2 on
Tier2(st) ==
  IF CONFIG.enableGoogleSearch
  THEN IF CONFIG.googleCseKey # "" /\ CONFIG.googleCx # ""
       THEN [Called(st, "search") EXCEPT !.pc = "cse"]
       ELSE Tier2Returned(st, Null)
  ELSE [st EXCEPT !.pc = "tier3"]

\* a findWebsite that goes on to tier 2 whatever guessDomain returned
Tier1ReturnedOnward(st, r) == [Returned(st, "domain_guess", r) EXCEPT !.pc = "tier2"]

\* findWebsite after guessDomain returned r
Tier1Returned(st, r) ==
  IF r # Null THEN Found(Returned(st, "domain_guess", r), r)
  ELSE [Returned(st, "domain_guess", r) EXCEPT !.pc = "tier2"]

\* a guessDomain that tries the same candidate again after a failed probe
NextPatternRetrying(st, k) ==
  IF st.patterns # <<>>
  THEN [st EXCEPT !.pc = "dns", !.pidx = 1]
  ELSE Tier1Returned(st, Null)

\* guessDomain moves to candidate k, or returns null after the last one
NextPattern(st, k) ==
  IF k <= Len(st.patterns)
  THEN [st EXCEPT !.pc = "dns", !.pidx = k]
  ELSE Tier1Returned(st, Null)

\* findWebsite from tier 1 on
Tier1(st) ==
  IF CONFIG.enableDomainGuessing
  THEN NextPattern([st EXCEPT !.patterns = generateDomainPatterns(
                                  st.customer.name, st.customer.city, CONFIG.forceWww)], 1)
  ELSE [st EXCEPT !.pc = "tier2"]

\* an existing-website prompt at which every answer but e skips the record
existsChoiceSkipping(st, resp) ==
  IF resp = <<"e">> THEN [Called(st, "prompt") EXCEPT !.pc = "q_enter_new"]
  ELSE Return(st, Skipped)

\* processCustomer after the existing-website prompt was answered with resp
existsChoice(st, resp) ==
  IF resp = <<"s">> THEN Return(st, Skipped)
  ELSE IF resp = <<"e">> THEN [Called(st, "prompt") EXCEPT !.pc = "q_enter_new"]
  ELSE [st EXCEPT !.pc = "resolve"]

\* a processCustomer that runs the pipeline whatever the input row carries
ResolveSearching(st) == [st EXCEPT !.pc = "tier1"]

\* processCustomer after the existing-website check
Resolve(st) ==
  IF Truthy(website) THEN [st EXCEPT !.websiteUrl = website, !.pc = "prepare"]
  ELSE [st EXCEPT !.pc = "tier1"]

\* a processCustomer without the existing-website check
AfterFetchUnchecked(st, c) == [st EXCEPT !.customer = c, !.pc = "resolve"]

\* processCustomer after getCustomer returned the record c
AfterFetch(st, c) ==
  LET st1 == [st EXCEPT !.customer = c]
  IN IF Trim(c.currentWebsite) # <<>> /\ ~opts.force
     THEN IF opts.nonInteractive THEN Return(st1, Skipped)
          ELSE [Called(st1, "prompt") EXCEPT !.pc = "q_exists"]
     ELSE [st1 EXCEPT !.pc = "resolve"]

\* the stretch of synchronous code st.pc labels
Continue(st) ==
  CASE st.pc = "resolve" -> Resolve(st)
    [] st.pc = "tier1" -> Tier1(st)
    [] st.pc = "tier2" -> Tier2(st)
    [] st.pc = "tier3" -> Tier3(st)
    [] st.pc = "decide" -> Decide(st)
    [] st.pc = "prepare" -> Prepare(st)
    [] st.pc = "return" -> Finish(st)

\* the program runs from st to its next await (or to its end)
RECURSIVE RunToAwait(_)
RunToAwait(st) ==
  IF st.pc \in {"resolve", "tier1", "tier2", "tier3", "decide", "prepare", "return"}
  THEN RunToAwait(Continue(st))
  ELSE st

(***************************************************************************)
(* Liveness probes and the results file                                    *)
(***************************************************************************)
\* a lookup that is taken as true however it ended
checkDomainExistsAlways(outcome) == outcome \in {"resolved", "error", "timeout"}

\* a name lookup raced against the DNS timeout ends "resolved", "error" or
\* "timeout"
checkDomainExists(outcome) == outcome = "resolved"

\* the HEAD request ends with a response, an error or a timeout
checkWebsiteResponds(outcome) ==
  outcome.kind = "response" /\ outcome.status >= 200 /\ outcome.status < 400

\* the file writeResultsCsv writes: the header and one line per outcome
writeResultsCsv(rowsSoFar) ==
  [header |-> <<"code", "status", "url", "error">>,
   lines |-> [k \in DOMAIN rowsSoFar |->
                [code |-> rowsSoFar[k].code, status |-> rowsSoFar[k].status,
                 url |-> IF Truthy(rowsSoFar[k].url) THEN rowsSoFar[k].url ELSE <<>>,
                 error |-> rowsSoFar[k].error]]]

(***************************************************************************)
(* Initial states                                                          *)
(***************************************************************************)
\* The command lines and environments of the model: a base run (--file
\* with --yes and --output, every tier enabled and keyed, credentials set)
\* and the runs that differ from it in one option, for each run mode.
BaseArgs ==
  [mode |-> "file", fileExists |-> TRUE, rows |-> <<>>,
   interactive |-> FALSE, force |-> FALSE, yes |-> TRUE, nonInteractive |-> FALSE,
   output |-> TRUE, username |-> "", password |-> "", companyID |-> "",
   enableOpenai |-> TRUE, disableDomainGuessing |-> FALSE, disableGoogle |-> FALSE,
   noForceWww |-> FALSE]

BaseEnv ==
  [username |-> "user", password |-> "pass", companyID |-> "co",
   googleCseKey |-> "gkey", openaiKey |-> "okey"]

\* --interactive runs leave the AI tier off, as it is by default
InteractiveArgs ==
  [BaseArgs EXCEPT !.interactive = TRUE, !.yes = FALSE, !.enableOpenai = FALSE]

Run(a, e) == [args |-> a, env |-> e]

\* --file and --codes runs, without their rows
BatchRuns ==
  {Run(a, BaseEnv) :
     a \in {BaseArgs,
            [BaseArgs EXCEPT !.force = TRUE],
            [BaseArgs EXCEPT !.disableDomainGuessing = TRUE],
            [BaseArgs EXCEPT !.disableGoogle = TRUE],
            [BaseArgs EXCEPT !.enableOpenai = FALSE],
            [BaseArgs EXCEPT !.noForceWww = TRUE],
            [BaseArgs EXCEPT !.output = FALSE],
            [InteractiveArgs EXCEPT !.yes = TRUE],
            InteractiveArgs,
            [InteractiveArgs EXCEPT !.force = TRUE],
            [BaseArgs EXCEPT !.mode = "codes"],
            [BaseArgs EXCEPT !.mode = "codes", !.force = TRUE]}}
  \cup {Run(BaseArgs, e) :
          e \in {[BaseEnv EXCEPT !.googleCseKey = ""],
                 [BaseEnv EXCEPT !.openaiKey = ""],
                 [BaseEnv EXCEPT !.username = ""]}}
  \cup {Run([BaseArgs EXCEPT !.mode = "codes"], [BaseEnv EXCEPT !.password = ""])}

\* runs without --file and --codes: the credential check and the prompts
PromptArgs ==
  [BaseArgs EXCEPT !.mode = "prompt", !.yes = FALSE, !.output = FALSE,
                   !.enableOpenai = FALSE]

PromptRuns ==
  {Run(PromptArgs, e) : e \in {BaseEnv, [BaseEnv EXCEPT !.companyID = ""]}}
  \cup {Run([PromptArgs EXCEPT !.yes = TRUE], e) :
          e \in {BaseEnv, [BaseEnv EXCEPT !.username = ""],
                 [BaseEnv EXCEPT !.password = ""], [BaseEnv EXCEPT !.companyID = ""]}}
  \cup {Run([PromptArgs EXCEPT !.nonInteractive = TRUE], [BaseEnv EXCEPT !.password = ""]),
        Run([PromptArgs EXCEPT !.yes = TRUE, !.username = "cli-user"],
            [BaseEnv EXCEPT !.username = ""])}

Runs ==
  {Run([r.args EXCEPT !.rows = list], r.env) :
     r \in {x \in BatchRuns : x.args.mode = "file"}, list \in ListsOf(FileRows)}
  \cup {Run([r.args EXCEPT !.rows = list], r.env) :
          r \in {x \in BatchRuns : x.args.mode = "codes"}, list \in ListsOf(CodeRows)}
  \cup {Run([BaseArgs EXCEPT !.fileExists = FALSE], BaseEnv)}
  \cup {Run([BaseArgs EXCEPT !.noForceWww = TRUE,
                             !.rows = [k \in 1..MaxRows |->
                                        [code |-> Code_AB12, website |-> S_httpsSlashes]]],
             BaseEnv),
        Run([BaseArgs EXCEPT !.rows = <<[code |-> Code_WE01,
                                         website |-> <<"P","i","n"," ","C","o",".","c","o","m">>]>>],
            BaseEnv),
        Run([BaseArgs EXCEPT !.rows = <<[code |-> <<"4","W","0","0">>, website |-> Undefined]>>], BaseEnv)}
  \cup PromptRuns

Init ==
  /\ \E r \in Runs : args = r.args /\ CONFIG = initialConfig(r.env)
  /\ pc = "main"
  /\ caller = "none"
  /\ rows = <<>>
  /\ opts = Null
  /\ i = 0
  /\ results = Null
  /\ detailed = <<>>
  /\ code = <<>>
  /\ website = Undefined
  /\ customer = Null
  /\ tiers = <<>>
  /\ searched = FALSE
  /\ result = Null
  /\ websiteUrl = Undefined
  /\ normalizedUrl = Undefined
  /\ patterns = <<>>
  /\ pidx = 0
  /\ res = Null
  /\ calls = NoCalls
  /\ lastSave = Null
  /\ lookup = "none"
  /\ typed = <<>>
  /\ reply = Null
  /\ outFile = Null
  /\ call = Null
  /\ ret = <<>>

(***************************************************************************)
(* Actions: main                                                           *)
(***************************************************************************)
\* processCustomerList is entered with the list and the options
EnterList(list, o) ==
  /\ caller' = "list"
  /\ rows' = list
  /\ opts' = o
  /\ i' = 0
  /\ results' = [total |-> Len(list), updated |-> 0, skipped |-> 0, failed |-> 0]
  /\ detailed' = <<>>
  /\ pc' = "loop"
  /\ UNCHANGED <<code, website, customer, tiers, searched, result, websiteUrl, normalizedUrl, patterns,
                 pidx, res, calls, lastSave, lookup, typed, reply, outFile>>

\* processCustomer is entered: getCustomer sends its request
EnterCustomer(c, w) ==
  /\ code' = c
  /\ website' = w
  /\ customer' = Null
  /\ tiers' = <<>>
  /\ searched' = FALSE
  /\ result' = Null
  /\ websiteUrl' = Undefined
  /\ normalizedUrl' = Undefined
  /\ patterns' = <<>>
  /\ pidx' = 0
  /\ calls' = [NoCalls EXCEPT !.fetch = 1]
  /\ lastSave' = Null
  /\ lookup' = "none"
  /\ typed' = <<>>
  /\ reply' = Null
  /\ pc' = "getCustomer"

Fatal ==
  /\ pc' = "fatal"
  /\ UNCHANGED <<caller, rows, opts, i, results, detailed, code, website, customer,
                 tiers, searched, result, websiteUrl, normalizedUrl, patterns, pidx, res, calls,
                 lastSave, lookup, typed, reply, outFile>>

\* main up to its first await: the arguments are applied to CONFIG and the
\* run mode is chosen
Main ==
  /\ pc = "main"
  /\ CONFIG' = applyArgs(CONFIG, args)
  /\ UNCHANGED <<args, call, ret>>
  /\ IF args.mode = "file"
     THEN IF ~args.fileExists THEN Fatal
          ELSE EnterList(args.rows, [nonInteractive |-> ~args.interactive,
                                     force |-> args.force, autoConfirm |-> args.yes])
     ELSE IF args.mode = "codes"
     THEN EnterList(args.rows, [nonInteractive |-> TRUE,
                                force |-> args.force, autoConfirm |-> args.yes])
     ELSE IF (args.yes \/ args.nonInteractive) /\ missingCredentials(CONFIG')
          THEN Fatal
          ELSE /\ pc' = "q_credentials"
               /\ UNCHANGED <<caller, rows, opts, i, results, detailed, code, website,
                              customer, tiers, searched, result, websiteUrl, normalizedUrl, patterns,
                              pidx, res, calls, lastSave, lookup, typed, reply, outFile>>

\* the prompts for the credentials CONFIG lacks
AskCredentials ==
  /\ pc = "q_credentials"
  /\ \E u \in {"", "user"}, p \in {"", "pass"}, c \in {"", "co"} :
       CONFIG' = [CONFIG EXCEPT
                    !.username = IF @ = "" THEN u ELSE @,
                    !.password = IF @ = "" THEN p ELSE @,
                    !.companyID = IF @ = "" THEN c ELSE @]
  /\ pc' = "q_mode"
  /\ UNCHANGED <<args, caller, rows, opts, i, results, detailed, code, website, customer,
                 tiers, searched, result, websiteUrl, normalizedUrl, patterns, pidx, res, calls,
                 lastSave, lookup, typed, reply, outFile, call, ret>>

InteractiveOpts == [nonInteractive |-> FALSE, force |-> FALSE, autoConfirm |-> FALSE]

\* the mode prompt and the prompt for the code or codes
AskMode ==
  /\ pc = "q_mode"
  /\ UNCHANGED <<args, CONFIG, call, ret>>
  /\ \E mode \in {"1", "2", "3"} :
       IF mode = "1"
       THEN \E c \in Codes :
              /\ EnterCustomer(c, Undefined)
              /\ caller' = "single"
              /\ opts' = InteractiveOpts
              /\ UNCHANGED <<rows, i, results, detailed, res, outFile>>
       ELSE IF mode = "2"
       THEN \E list \in ListsOf(CodeRows) : EnterList(list, InteractiveOpts)
       ELSE /\ pc' = "done"
            /\ UNCHANGED <<caller, rows, opts, i, results, detailed, code, website,
                           customer, tiers, searched, result, websiteUrl, normalizedUrl, patterns, pidx,
                           res, calls, lastSave, lookup, typed, reply, outFile>>

(***************************************************************************)
(* Actions: processCustomerList                                            *)
(***************************************************************************)
\* a loop that takes the rows from the end of the list
LoopHeadBackwards ==
  /\ pc = "loop"
  /\ UNCHANGED <<args, CONFIG, caller, rows, opts, i, results, detailed, res, call, ret>>
  /\ IF i < Len(rows)
     THEN /\ EnterCustomer(rows[Len(rows) - i].code, rows[Len(rows) - i].website)
          /\ UNCHANGED outFile
     ELSE /\ pc' = "done"
          /\ outFile' = IF args.mode = "file" /\ args.output
                        THEN writeResultsCsv(detailed) ELSE outFile
          /\ UNCHANGED <<code, website, customer, tiers, searched, result, websiteUrl, normalizedUrl,
                         patterns, pidx, calls, lastSave, lookup, typed, reply>>

\* the loop head: the next row is processed, or the summary is returned
\* and main writes the results file
LoopHead ==
  /\ pc = "loop"
  /\ UNCHANGED <<args, CONFIG, caller, rows, opts, i, results, detailed, res, call, ret>>
  /\ IF i < Len(rows)
     THEN /\ EnterCustomer(rows[i + 1].code, rows[i + 1].website)
          /\ UNCHANGED outFile
     ELSE /\ pc' = "done"
          /\ outFile' = IF args.mode = "file" /\ args.output
                        THEN writeResultsCsv(detailed) ELSE outFile
          /\ UNCHANGED <<code, website, customer, tiers, searched, result, websiteUrl, normalizedUrl,
                         patterns, pidx, calls, lastSave, lookup, typed, reply>>

(***************************************************************************)
(* Actions: processCustomer, one per await                                 *)
(***************************************************************************)
GetCustomerResponse ==
  /\ pc = "getCustomer"
  /\ \E response \in FetchResponses(code) \cup StoredResponses(code, rows, i, res) :
       LET r == soapRequest(response)
       IN Becomes(RunToAwait(IF r.ok THEN AfterFetch(Cur, decodeCustomer(r.data))
                             ELSE Caught(Cur, r.message)))

AnswerExists ==
  /\ pc = "q_exists"
  /\ \E answer \in ExistsAnswers :
       LET resp == ToLowerCase(Trim(answer))
       IN Becomes(RunToAwait(existsChoice([Cur EXCEPT !.typed = Append(@, answer)], resp)))

AnswerEnterNew ==
  /\ pc = "q_enter_new"
  /\ \E manual \in ManualEntries :
       Becomes(RunToAwait(
         IF Trim(manual) = <<>> THEN Return([Cur EXCEPT !.typed = Append(@, manual)], Skipped)
         ELSE IssueSave([Cur EXCEPT !.typed = Append(@, manual)],
                        normalizeDomain(manual, CONFIG.forceWww), "save_new")))

SaveNewResponse ==
  /\ pc = "save_new"
  /\ \E response \in SaveResponses :
       LET r == soapRequest(response)
       IN Becomes(RunToAwait(
            IF r.ok THEN Return([Cur EXCEPT !.reply = response], Saved(saveSucceeded(r.data)))
            ELSE Caught([Cur EXCEPT !.reply = response], r.message)))

DnsResult ==
  /\ pc = "dns"
  /\ \E outcome \in {"resolved", "error", "timeout"} :
       Becomes(RunToAwait(IF checkDomainExists(outcome)
                          THEN [Cur EXCEPT !.pc = "http", !.lookup = outcome]
                          ELSE NextPattern([Cur EXCEPT !.lookup = outcome], pidx + 1)))

HttpResult ==
  /\ pc = "http"
  /\ \E outcome \in {[kind |-> "response", status |-> 200],
                     [kind |-> "response", status |-> 404],
                     [kind |-> "error", status |-> 0],
                     [kind |-> "timeout", status |-> 0]} :
       Becomes(RunToAwait(
         IF checkWebsiteResponds(outcome)
         THEN Tier1Returned(Cur, [url |-> patterns[pidx], confidence |-> "high",
                                  source |-> "domain_guess"])
         ELSE NextPattern(Cur, pidx + 1)))

SearchResponse ==
  /\ pc = "cse"
  /\ \E response \in SearchResponses :
       Becomes(RunToAwait(Tier2Returned(Cur, searchResult(response, CONFIG.forceWww))))

OpenaiResponse ==
  /\ pc = "openai"
  /\ \E response \in OpenaiResponses :
       Becomes(RunToAwait(Tier3Returned(Cur, openaiResult(response, CONFIG.forceWww))))

AnswerUse ==
  /\ pc = "q_use"
  /\ \E answer \in UseAnswers :
       LET choice == ToLowerCase(Trim(answer))
       IN Becomes(RunToAwait(
            IF choice = <<"y">>
            THEN [Cur EXCEPT !.websiteUrl = result.url, !.pc = "prepare",
                             !.typed = Append(@, answer)]
            ELSE IF choice = <<"e">>
                 THEN [Called(Cur, "prompt") EXCEPT !.pc = "q_manual", !.typed = Append(@, answer)]
                 ELSE Return([Cur EXCEPT !.typed = Append(@, answer)], Skipped)))

AnswerManual ==
  /\ pc = "q_manual"
  /\ \E manual \in ManualEntries :
       Becomes(RunToAwait(
         IF Trim(manual) = <<>> THEN Return([Cur EXCEPT !.typed = Append(@, manual)], Skipped)
         ELSE [Cur EXCEPT !.websiteUrl = manual, !.pc = "prepare",
                          !.typed = Append(@, manual)]))

AnswerConfirm ==
  /\ pc = "q_confirm"
  /\ \E answer \in ConfirmAnswers :
       Becomes(RunToAwait(
         IF ToLowerCase(Trim(answer)) # <<"y">>
         THEN Return([Cur EXCEPT !.typed = Append(@, answer)], Skipped)
         ELSE IssueSave([Cur EXCEPT !.typed = Append(@, answer)], normalizedUrl, "save")))

SaveResponse ==
  /\ pc = "save"
  /\ \E response \in SaveResponses :
       LET r == soapRequest(response)
       IN Becomes(RunToAwait(
            IF ~r.ok THEN Caught([Cur EXCEPT !.reply = response], r.message)
            ELSE IF saveSucceeded(r.data)
                 THEN Return([Cur EXCEPT !.reply = response], Updated(normalizedUrl))
                 ELSE Return([Cur EXCEPT !.reply = response], Failed(""))))

Next ==
  \/ Main
  \/ AskCredentials
  \/ AskMode
  \/ LoopHead
  \/ GetCustomerResponse
  \/ AnswerExists
  \/ AnswerEnterNew
  \/ SaveNewResponse
  \/ DnsResult
  \/ HttpResult
  \/ SearchResponse
  \/ OpenaiResponse
  \/ AnswerUse
  \/ AnswerManual
  \/ AnswerConfirm
  \/ SaveResponse

Spec == Init /\ [][Next]_vars

\* Every await of the program is answered: each external call completes or
\* runs into its timeout, and the user answers each prompt.
\* The await the program is suspended at is answered (an external call
\* completes or runs into its timeout, the user answers a prompt) and the
\* program moves on: to another await, to the next candidate of guessDomain
\* or to the next row.  Every step of Next is such a step.
Answered ==
  /\ pc \notin {"done", "fatal"}
  /\ \E l \in {"q_credentials", "q_mode", "loop", "getCustomer", "q_exists", "q_enter_new",
               "save_new", "dns", "http", "cse", "openai", "q_use", "q_manual", "q_confirm",
               "save", "done", "fatal"},
        k \in 0..5, n \in 0..MaxRows :
       pc' = l /\ pidx' = k /\ i' = n

\* The runs are the base --file run, the --interactive run and the run that
\* prompts for its mode, each with the credentials in the environment.
LiveInit ==
  /\ Init
  /\ CONFIG = initialConfig(BaseEnv)
  /\ [args EXCEPT !.rows = <<>>] \in {BaseArgs, InteractiveArgs, PromptArgs}

\* Every await of the runs of LiveInit is answered.
LiveSpec == LiveInit /\ [][Next]_vars /\ WF_<<pc, pidx, i>>(Answered)

(***************************************************************************)
(* The TypeScript module (websites.ts).  Its directory client is the one   *)
(* of the script (soapRequest, getCustomer and the response check of       *)
(* saveCustomerWebsite are the same code); its normalizeDomain always adds *)
(* the www label; its processCustomer takes the website from the row or    *)
(* from the user and has no resolver.  The awaits of a record are           *)
(* "getCustomer", "q_exists" (overwrite?), "q_manual" (the URL),           *)
(* "q_confirm" and "save"; processCustomerList waits at "q_continue".      *)
(* As for the script, i counts the records processCustomerList has         *)
(* tallied.                                                                *)
(***************************************************************************)
\* the options runWebsites is called with: a file of rows, a list of codes
\* or neither; the credentials are in the environment
TsInit ==
  /\ args \in
         {[mode |-> "file", fileExists |-> e, rows |-> list, force |-> f] :
            e \in BOOLEAN, list \in ListsOf(FileRows), f \in BOOLEAN}
         \cup {[mode |-> "codes", fileExists |-> FALSE, rows |-> list, force |-> f] :
                 list \in ListsOf(CodeRows), f \in BOOLEAN}
         \cup {[mode |-> "prompt", fileExists |-> FALSE, rows |-> <<>>, force |-> f] : f \in BOOLEAN}
  /\ CONFIG = initialConfig(BaseEnv)
  /\ pc = "runWebsites"
  /\ caller = "none"
  /\ rows = <<>>
  /\ opts = Null
  /\ i = 0
  /\ results = Null
  /\ detailed = <<>>
  /\ code = <<>>
  /\ website = Undefined
  /\ customer = Null
  /\ tiers = <<>>
  /\ searched = FALSE
  /\ result = Null
  /\ websiteUrl = Undefined
  /\ normalizedUrl = Undefined
  /\ patterns = <<>>
  /\ pidx = 0
  /\ res = Null
  /\ calls = NoCalls
  /\ lastSave = Null
  /\ lookup = "none"
  /\ typed = <<>>
  /\ reply = Null
  /\ outFile = Null
  /\ call = Null
  /\ ret = <<>>

\* runWebsites up to its first await of a record: the file and the codes
\* are processed unattended, otherwise the user picks a mode and enters
\* the code or the codes
TsRunWebsites ==
  /\ pc = "runWebsites"
  /\ UNCHANGED <<args, CONFIG, call, ret>>
  /\ IF args.mode = "file"
     THEN IF ~args.fileExists THEN Fatal
          ELSE EnterList(args.rows, [nonInteractive |-> TRUE, force |-> args.force])
     ELSE IF args.mode = "codes"
     THEN EnterList(args.rows, [nonInteractive |-> TRUE, force |-> args.force])
     ELSE \E mode \in {"1", "2", "3"} :
            IF mode = "1"
            THEN \E c \in Codes :
                   /\ EnterCustomer(c, Undefined)
                   /\ caller' = "single"
                   /\ opts' = [nonInteractive |-> FALSE, force |-> FALSE]
                   /\ UNCHANGED <<rows, i, results, detailed, res, outFile>>
            ELSE IF mode = "2"
            THEN \E list \in ListsOf(CodeRows) :
                   EnterList(list, [nonInteractive |-> FALSE, force |-> FALSE])
            ELSE /\ pc' = "done"
                 /\ UNCHANGED <<caller, rows, opts, i, results, detailed, code, website,
                                customer, tiers, searched, result, websiteUrl, normalizedUrl,
                                patterns, pidx, res, calls, lastSave, lookup, typed, reply,
                                outFile>>

\* the head of the loop of processCustomerList: the next row is processed
\* or the summary is printed
TsLoopHead ==
  /\ pc = "loop"
  /\ UNCHANGED <<args, CONFIG, caller, rows, opts, i, results, detailed, res, outFile, call, ret>>
  /\ IF i < Len(rows)
     THEN EnterCustomer(rows[i + 1].code, rows[i + 1].website)
     ELSE /\ pc' = "done"
          /\ UNCHANGED <<code, website, customer, tiers, searched, result, websiteUrl,
                         normalizedUrl, patterns, pidx, calls, lastSave, lookup, typed, reply>>

\* processCustomer returns r: processCustomerList tallies it and, in
\* interactive mode and unless the row was the last one, asks whether to
\* continue; a single run ends
TsReturned(st, r) ==
  IF caller = "list"
  THEN [st EXCEPT !.res = r, !.i = @ + 1, !.results = tally(@, r),
                  !.pc = IF ~opts.nonInteractive /\ st.i + 1 < Len(rows)
                         THEN "q_continue" ELSE "loop"]
  ELSE [st EXCEPT !.res = r, !.pc = "done"]

\* outId and outCode fall back to '0' and to the code asked for; the
\* request carries the normalized website as it is
TsIssueSave(st) ==
  [Called(st, "save") EXCEPT
     !.pc = "save",
     !.lastSave = [id |-> IF Trim(st.customer.id) # <<>> THEN st.customer.id ELSE <<"0">>,
                   code |-> IF Trim(st.customer.code) # <<>> THEN st.customer.code ELSE code,
                   website |-> st.normalizedUrl]]

\* websiteUrl is known: a blank one is skipped, otherwise it is normalized
\* and confirmed at the prompt or saved at once
TsChosen(st, url) ==
  IF ~Truthy(url) \/ Trim(url) = <<>> THEN TsReturned(st, Skipped)
  ELSE IF ~opts.nonInteractive
       THEN [Called(st, "prompt") EXCEPT !.websiteUrl = url, !.pc = "q_confirm",
                                          !.normalizedUrl = normalizeDomain(url, TRUE)]
       ELSE TsIssueSave([st EXCEPT !.websiteUrl = url,
                                   !.normalizedUrl = normalizeDomain(url, TRUE)])

\* a processCustomer that fails a row without a website in unattended mode
TsResolveFailing(st) ==
  IF Truthy(website) THEN TsChosen(st, website)
  ELSE IF opts.nonInteractive THEN TsReturned(st, Failed(""))
       ELSE [Called(st, "prompt") EXCEPT !.pc = "q_manual"]

\* let websiteUrl = opts.website: without one, an unattended run skips the
\* record and an interactive run asks for the URL
TsResolve(st) ==
  IF Truthy(website) THEN TsChosen(st, website)
  ELSE IF opts.nonInteractive THEN TsReturned(st, Skipped)
       ELSE [Called(st, "prompt") EXCEPT !.pc = "q_manual"]

TsGetCustomerResponse ==
  /\ pc = "getCustomer"
  /\ \E response \in FetchResponses(code) :
       LET r == soapRequest(response)
       IN Becomes(
            IF ~r.ok THEN TsReturned(Cur, Failed(r.message))
            ELSE IF Trim(decodeCustomer(r.data).currentWebsite) # <<>> /\ ~opts.force
                 THEN IF opts.nonInteractive
                      THEN TsReturned([Cur EXCEPT !.customer = decodeCustomer(r.data)], Skipped)
                      ELSE [Called(Cur, "prompt") EXCEPT
                              !.customer = decodeCustomer(r.data), !.pc = "q_exists"]
                 ELSE TsResolve([Cur EXCEPT !.customer = decodeCustomer(r.data)]))

\* Website already exists. Overwrite? (y/n)
TsAnswerOverwrite ==
  /\ pc = "q_exists"
  /\ \E answer \in ContinueAnswers :
       Becomes(IF ToLowerCase(answer) # <<"y">>
               THEN TsReturned([Cur EXCEPT !.typed = Append(@, answer)], Skipped)
               ELSE TsResolve([Cur EXCEPT !.typed = Append(@, answer)]))

\* Enter website URL (or press Enter to skip)
TsAnswerUrl ==
  /\ pc = "q_manual"
  /\ \E manual \in ManualEntries :
       Becomes(TsChosen([Cur EXCEPT !.typed = Append(@, manual)], manual))

\* Save <normalizedUrl> to customer <code>? (y/n)
TsAnswerConfirm ==
  /\ pc = "q_confirm"
  /\ \E answer \in ContinueAnswers :
       Becomes(IF ToLowerCase(answer) # <<"y">>
               THEN TsReturned([Cur EXCEPT !.typed = Append(@, answer)], Skipped)
               ELSE TsIssueSave([Cur EXCEPT !.typed = Append(@, answer)]))

TsSaveResponse ==
  /\ pc = "save"
  /\ \E response \in SaveResponses :
       LET r == soapRequest(response)
       IN Becomes(IF ~r.ok THEN TsReturned([Cur EXCEPT !.reply = response], Failed(r.message))
                  ELSE TsReturned([Cur EXCEPT !.reply = response], Saved(saveSucceeded(r.data))))

\* a loop that goes on to the next row whatever the user answers
TsAnswerContinueAlways ==
  /\ pc = "q_continue"
  /\ \E answer \in ContinueAnswers :
       Becomes([Cur EXCEPT !.typed = Append(@, answer), !.pc = "loop"])

\* Continue to next customer? (y/n): any answer but y, in either case,
\* leaves the loop
TsAnswerContinue ==
  /\ pc = "q_continue"
  /\ \E answer \in ContinueAnswers :
       Becomes([Cur EXCEPT !.typed = Append(@, answer),
                           !.pc = IF ToLowerCase(answer) # <<"y">> THEN "done" ELSE "loop"])

TsNext ==
  \/ TsRunWebsites
  \/ TsLoopHead
  \/ TsGetCustomerResponse
  \/ TsAnswerOverwrite
  \/ TsAnswerUrl
  \/ TsAnswerConfirm
  \/ TsSaveResponse
  \/ TsAnswerContinue

TsSpec == TsInit /\ [][TsNext]_vars

(***************************************************************************)
(* The pure functions applied on their own.  A call is drawn from bounded  *)
(* sets of arguments, the function is applied to them and what it returns  *)
(* is kept in ret; normalizeDomain is applied a second time, to what it    *)
(* returned.                                                               *)
(***************************************************************************)
MaxPrefixes == 2

MaxItems == 2

RECURSIVE Concat(_)
Concat(parts) == IF parts = <<>> THEN <<>> ELSE parts[1] \o Concat(Tail(parts))

\* normalizeDomain on a host, a host with a path or a port, or a name with
\* a space, behind up to MaxPrefixes schemes and www labels;
\* generateDomainPatterns on a company name and a city; searchGoogleCSE on
\* a response of up to MaxItems items; searchWithOpenAI on a response of
\* the completion service
Calls ==
  {[fn |-> "normalizeDomain", url |-> Concat(pre) \o host, forceWww |-> w] :
     pre \in UNION {[1..n -> {S_http \o <<":","/","/">>, S_httpsSlashes, S_www,
                              <<"W","W","W",".">>}] : n \in 0..MaxPrefixes},
     host \in {<<"a",".","c","o","m">>, <<"A",".","c","o","m">>, <<"a"," ","b">>, <<"a",".","c","o","m","/","x">>, <<"a",".","c","o","m",":","8","0">>},
     w \in BOOLEAN}
  \cup
  {[fn |-> "generateDomainPatterns", companyName |-> name, city |-> city, forceWww |-> w] :
     name \in {<<"4","P","r","i","n","t"," ","W","r","a","p","s",","," ","I","n","c",".">>,
               <<"T","h","e"," ","A","c","m","e"," ","C","o">>,
               <<"A"," ","B">>},
     city \in {<<>>, <<"G","l","e","n","b","u","r","n","i","e">>},
     w \in BOOLEAN}
  \cup
  {[fn |-> "searchGoogleCSE", items |-> items, forceWww |-> w] :
     items \in UNION {[1..n ->
       {Item(link, title, snippet) :
          link \in {S_httpsSlashes \o <<"a","c","m","e",".","c","o","m","/">>,
                    S_httpsSlashes \o <<"a","c","m","e",".","o","r","g","/","a">>,
                    S_httpsSlashes \o badDomains[1] \o <<"/","a","c","m","e">>,
                    <<"a","c","m","e",".","c","o","m">>},
          title \in {<<"A","c","m","e">>, <<"H","o","m","e">>},
          snippet \in {<<>>, <<"T","h","e"," ","o","f","f","i","c","i","a","l"," ","w","e","b","s","i","t","e">>}}] : n \in 0..MaxItems},
     w \in BOOLEAN}
  \cup
  {[fn |-> "searchWithOpenAI", response |-> response, forceWww |-> w] :
     response \in OpenaiResponses
                     \cup {[kind |-> "json", content |-> content] :
                             content \in {<<"S","o","r","r","y",","," ","N","O","T","_","F","O","U","N","D",".">>,
                                          <<"n","o","t","_","f","o","u","n","d">>,
                                          <<" ","h","t","t","p","s",":","/","/","A","i",".","c","o","m","/","a","b","o","u","t">>, <<>>}},
     w \in BOOLEAN}

PureInit ==
  /\ call \in Calls
  /\ ret = <<>>
  /\ args = BaseArgs
  /\ CONFIG = initialConfig(BaseEnv)
  /\ pc = "call"
  /\ caller = "none"
  /\ rows = <<>>
  /\ opts = Null
  /\ i = 0
  /\ results = Null
  /\ detailed = <<>>
  /\ code = <<>>
  /\ website = Undefined
  /\ customer = Null
  /\ tiers = <<>>
  /\ searched = FALSE
  /\ result = Null
  /\ websiteUrl = Undefined
  /\ normalizedUrl = Undefined
  /\ patterns = <<>>
  /\ pidx = 0
  /\ res = Null
  /\ calls = NoCalls
  /\ lastSave = Null
  /\ lookup = "none"
  /\ typed = <<>>
  /\ reply = Null
  /\ outFile = Null

\* the function returns value
Applied(value) ==
  /\ ret' = Append(ret, value)
  /\ UNCHANGED <<args, CONFIG, pc, caller, rows, opts, i, results, detailed, code, website,
                 customer, tiers, searched, result, websiteUrl, normalizedUrl, patterns,
                 pidx, res, calls, lastSave, lookup, typed, reply, outFile, call>>

\* normalizeDomain(url), then normalizeDomain of what it returned
ApplyNormalizeDomain ==
  /\ call.fn = "normalizeDomain"
  /\ Len(ret) < 2
  /\ Applied(normalizeDomain(IF ret = <<>> THEN call.url ELSE ret[1], call.forceWww))

ApplyGenerateDomainPatterns ==
  /\ call.fn = "generateDomainPatterns"
  /\ ret = <<>>
  /\ Applied(generateDomainPatterns(call.companyName, call.city, call.forceWww))

ApplySearchGoogleCSE ==
  /\ call.fn = "searchGoogleCSE"
  /\ ret = <<>>
  /\ Applied(searchResult([kind |-> "json", items |-> call.items], call.forceWww))

ApplySearchWithOpenAI ==
  /\ call.fn = "searchWithOpenAI"
  /\ ret = <<>>
  /\ Applied(openaiResult(call.response, call.forceWww))

PureNext ==
  \/ ApplyNormalizeDomain
  \/ ApplyGenerateDomainPatterns
  \/ ApplySearchGoogleCSE
  \/ ApplySearchWithOpenAI

PureSpec == PureInit /\ [][PureNext]_vars

(***************************************************************************)
(* Properties                                                              *)
(***************************************************************************)
\* C1: when processCustomerList ends, updated + skipped + failed equals
\* total, the number of input rows (and while it runs the three counters
\* add up to the number of rows already processed).
C1_TallyAddsUp ==
  caller = "list" =>
    /\ results.total = Len(rows)
    /\ pc = "loop" => results.updated + results.skipped + results.failed = i
    /\ pc = "done" => results.updated + results.skipped + results.failed = results.total

\* a two-row run has ended with one row updated and one row failed
C1_Witness ==
  /\ caller = "list" /\ pc = "done"
  /\ results.total = 2 /\ results.updated = 1 /\ results.failed = 1

\* C2: in nonInteractive mode a candidate of findWebsite whose confidence
\* is not high is not persisted unless force is set (the record is
\* skipped), and a candidate whose confidence is high is sent to
\* saveCustomerWebsite without any prompt.
C2_ConfidenceGate ==
  (opts # Null /\ opts.nonInteractive /\ searched /\ result # Null) =>
    /\ calls.prompt = 0
    /\ (result.confidence # "high" /\ ~opts.force) =>
         /\ calls.save = 0 /\ lastSave = Null
         /\ pc \in {"loop", "done"} /\ res = Skipped
    /\ result.confidence = "high" =>
         /\ calls.save = 1
         /\ lastSave.website = ToLowerCase(normalizeDomain(result.url, CONFIG.forceWww))

\* a medium-confidence candidate was found in an unforced nonInteractive
\* run and the record ended skipped
C2_Witness ==
  /\ opts # Null /\ opts.nonInteractive /\ ~opts.force
  /\ searched /\ result # Null /\ result.confidence = "medium"
  /\ pc = "loop" /\ res = Skipped

\* C3: once a tier has returned a candidate to findWebsite no later tier
\* is invoked for the record and that candidate is what findWebsite
\* returns; after a successful domain guess neither the search service
\* nor the completion service is called.
C3_ShortCircuit ==
  /\ \A k \in 1..(Len(tiers) - 1) : tiers[k].candidate = Null
  /\ (tiers # <<>> /\ tiers[Len(tiers)].candidate # Null) =>
       /\ searched /\ result = tiers[Len(tiers)].candidate
       /\ pc \notin {"dns", "http", "cse", "openai"}
       /\ tiers[Len(tiers)].tier = "domain_guess" =>
            /\ calls.search = 0 /\ calls.ai = 0
            /\ result.url = patterns[pidx]
       /\ tiers[Len(tiers)].tier = "google_cse" => calls.ai = 0

\* guessDomain succeeded on the first tier and its candidate is being saved
C3_Witness ==
  /\ Len(tiers) = 1 /\ tiers[1].tier = "domain_guess" /\ tiers[1].candidate # Null
  /\ CONFIG.enableGoogleSearch /\ CONFIG.googleCseKey # ""
  /\ pc = "save" /\ calls.search = 0

\* C4: the tiers run in the order domain guessing, search, AI; a tier
\* whose enable flag is off issues no call; a tier is invoked only after
\* every earlier enabled tier returned null; and findWebsite returns null
\* exactly when every enabled tier returned null.
C4_TierOrder ==
  /\ \A j, k \in DOMAIN tiers :
       j < k => [domain_guess |-> 1, google_cse |-> 2, openai |-> 3][tiers[j].tier]
                < [domain_guess |-> 1, google_cse |-> 2, openai |-> 3][tiers[k].tier]
  /\ ~CONFIG.enableDomainGuessing =>
       /\ pidx = 0 /\ patterns = <<>> /\ pc \notin {"dns", "http"}
       /\ \A k \in DOMAIN tiers : tiers[k].tier # "domain_guess"
  /\ ~CONFIG.enableGoogleSearch =>
       /\ calls.search = 0 /\ pc # "cse"
       /\ \A k \in DOMAIN tiers : tiers[k].tier # "google_cse"
  /\ ~CONFIG.enableOpenAI =>
       /\ calls.ai = 0 /\ pc # "openai"
       /\ \A k \in DOMAIN tiers : tiers[k].tier # "openai"
  /\ pc \in {"dns", "http"} => tiers = <<>>
  /\ (pc = "cse" \/ calls.search > 0) =>
       IF CONFIG.enableDomainGuessing
       THEN tiers # <<>> /\ tiers[1] = [tier |-> "domain_guess", candidate |-> Null]
       ELSE pc = "cse" => tiers = <<>>
  /\ (pc = "openai" \/ calls.ai > 0) =>
       /\ CONFIG.enableDomainGuessing =>
            \E k \in DOMAIN tiers : tiers[k] = [tier |-> "domain_guess", candidate |-> Null]
       /\ CONFIG.enableGoogleSearch =>
            \E k \in DOMAIN tiers : tiers[k] = [tier |-> "google_cse", candidate |-> Null]
  /\ searched =>
       /\ result = Null <=> \A k \in DOMAIN tiers : tiers[k].candidate = Null
       /\ result = Null =>
            {tiers[k].tier : k \in DOMAIN tiers}
              = {t \in {"domain_guess", "google_cse", "openai"} :
                   \/ t = "domain_guess" /\ CONFIG.enableDomainGuessing
                   \/ t = "google_cse" /\ CONFIG.enableGoogleSearch
                   \/ t = "openai" /\ CONFIG.enableOpenAI}

\* the three tiers ran in order, each returned null, and so did findWebsite
C4_Witness ==
  /\ searched /\ result = Null
  /\ Len(tiers) = 3 /\ tiers[1].tier = "domain_guess" /\ tiers[2].tier = "google_cse"
  /\ tiers[3].tier = "openai"
  /\ pidx > 0 /\ calls.search = 1 /\ calls.ai = 1

\* C5: a saveCustomer request sent for a record whose decoded identifier
\* and code are both blank carries the identifier "0" and the code the
\* record was looked up with.
C5_PersistFallback ==
  (lastSave # Null /\ customer # Null /\ customer.id = <<>> /\ customer.code = <<>>) =>
    /\ lastSave.id = <<"0">>
    /\ lastSave.code = code

\* C6: a --file or --codes run that starts with a credential missing
\* aborts before any record is fetched and produces no tally.
C6_FatalCredentials ==
  (args.mode \in {"file", "codes"} /\ pc # "main" /\ missingCredentials(CONFIG)) =>
    /\ pc = "fatal"
    /\ calls.fetch = 0
    /\ results = Null

\* C7: a record whose getCustomer request fails (a non-2xx response,
\* whose message is "HTTP <status>: <body>", or a transport error) ends as
\* failed with the error's message recorded, no tier and no save is
\* invoked for it, and the list goes on with its next row.
C7_FetchFailure ==
  (calls.fetch = 1 /\ customer = Null /\ pc # "getCustomer") =>
    /\ ~res.success /\ ~res.skipped
    /\ res.error \in {"HTTP 500: Invalid customer code", "socket hang up"}
    /\ tiers = <<>> /\ ~searched /\ pidx = 0
    /\ calls = [NoCalls EXCEPT !.fetch = 1] /\ lastSave = Null
    /\ caller = "single" => pc = "done"
    /\ caller = "list" =>
         /\ pc \in {"loop", "done"}
         /\ pc = "done" => i = Len(rows)
         /\ results.failed >= 1
         /\ detailed # <<>>
         /\ detailed[Len(detailed)] = [code |-> code, url |-> Undefined,
                                       error |-> res.error, status |-> "failed"]

\* the first of two rows failed with HTTP 500 and the loop is at its head
\* with a row left
C7_Witness ==
  /\ caller = "list" /\ pc = "loop" /\ i = 1 /\ Len(rows) = 2
  /\ calls.fetch = 1 /\ customer = Null
  /\ res.error = "HTTP 500: Invalid customer code"

\* C8: in nonInteractive mode without force a record whose fetched
\* currentWebsite is non-empty ends as skipped; no tier is invoked and no
\* saveCustomer request is sent for it, whether or not its row pins a
\* website.
C8_ExistingPreserved ==
  (opts # Null /\ opts.nonInteractive /\ ~opts.force
     /\ customer # Null /\ customer.currentWebsite # <<>>) =>
    /\ pc \in {"loop", "done"} /\ res = Skipped
    /\ tiers = <<>> /\ ~searched /\ pidx = 0
    /\ calls = [NoCalls EXCEPT !.fetch = 1] /\ lastSave = Null
    /\ websiteUrl = Undefined

\* a row that pins a website was skipped because its record has one
C8_Witness ==
  /\ opts # Null /\ opts.nonInteractive /\ ~opts.force
  /\ customer # Null /\ customer.currentWebsite # <<>>
  /\ website = S_pinned
  /\ pc = "loop" /\ res = Skipped

\* C9: the results file of an unforced nonInteractive --file run holds a
\* row with status skipped for a code whose record has a non-empty
\* currentWebsite (here: the last row of the input).
C9_SkippedRowWritten ==
  (pc = "done" /\ caller = "list" /\ outFile # Null
     /\ opts.nonInteractive /\ ~opts.force
     /\ customer # Null /\ customer.currentWebsite # <<>>) =>
    \E k \in DOMAIN outFile.lines :
      /\ outFile.lines[k].code = code
      /\ outFile.lines[k].status = "skipped"
      /\ outFile.lines[k].url = <<>>
      /\ outFile.lines[k].error # ""

\* C10: the detailed outcomes hold one row with status updated for every
\* record counted as updated and one row with status failed for every
\* record counted as failed.
C10_DetailComplete ==
  caller = "list" =>
    /\ Cardinality({k \in DOMAIN detailed : detailed[k].status = "updated"})
         = results.updated
    /\ Cardinality({k \in DOMAIN detailed : detailed[k].status = "failed"})
         = results.failed

\* C11 (as stated): when the input row carries a non-empty website,
\* findWebsite and every tier are never invoked for the record, and every
\* saveCustomer request sent for it carries the normalization of that
\* website.
C11_PinnedBypasses ==
  Truthy(website) =>
    /\ tiers = <<>> /\ ~searched /\ result = Null
    /\ patterns = <<>> /\ pidx = 0 /\ calls.search = 0 /\ calls.ai = 0
    /\ lastSave # Null =>
         lastSave.website = ToLowerCase(normalizeDomain(website, CONFIG.forceWww))

\* C11 (amended): when the input row carries a non-empty website,
\* findWebsite and every tier are never invoked for the record; a
\* saveCustomer request sent from the main path (websiteUrl was chosen)
\* carries the lower-cased normalization of that website, and one sent from
\* the enter-new branch of the existing-website prompt carries the
\* lower-cased normalization of what the user typed there.
C11_PinnedBypassesUnlessEnteredNew ==
  Truthy(website) =>
    /\ tiers = <<>> /\ ~searched /\ result = Null
    /\ patterns = <<>> /\ pidx = 0 /\ calls.search = 0 /\ calls.ai = 0
    /\ websiteUrl \in {Undefined, website}
    /\ lastSave # Null =>
         IF websiteUrl = website
         THEN lastSave.website = ToLowerCase(normalizeDomain(website, CONFIG.forceWww))
         ELSE /\ calls.prompt = 2 /\ normalizedUrl = Undefined
              /\ \E manual \in ManualEntries :
                   /\ Trim(manual) # <<>>
                   /\ lastSave.website = ToLowerCase(normalizeDomain(manual, CONFIG.forceWww))

\* a saveCustomer request carrying the pinned website has been sent
C11_Witness ==
  /\ Truthy(website) /\ pc = "save" /\ websiteUrl = website
  /\ lastSave # Null
  /\ lastSave.website = ToLowerCase(normalizeDomain(website, CONFIG.forceWww))

\* C12: in interactive mode with autoConfirm unset, a saveCustomer request
\* is sent only by the step that takes the answer to the record's confirm
\* prompt (and that answer is yes): no other step sends one.
C12_ConfirmBeforePersist ==
  [][(opts # Null /\ ~opts.nonInteractive /\ ~opts.autoConfirm /\ calls'.save > calls.save)
       => pc = "q_confirm"]_vars

\* C13: once the response to the record's saveCustomer request has come,
\* a 2xx response holding the success marker (in any case) leaves the record
\* updated with the saved hostname recorded in its outcome (and, in a list,
\* in the last detail row); a 2xx response without the marker leaves it
\* failed with no exception message (error "unknown" in the detail row); a
\* non-2xx response or a transport error leaves it failed with the error's
\* message; and in a list the record is tallied and the loop goes on.
C13_PersistOutcome ==
  reply # Null =>
    /\ pc \in {"loop", "done"}
    /\ caller = "list" => results.updated + results.skipped + results.failed = i
    /\ IF reply.kind = "http" /\ reply.status \in 200..299
       THEN IF Includes(ToLowerCase(reply.data),
                        <<"s","a","v","e","c","u","s","t","o","m","e","r","r","e","s","u","l","t">>)
            THEN /\ res.success /\ ~res.skipped
                 /\ Truthy(res.url) /\ ToLowerCase(res.url) = lastSave.website
                 /\ caller = "list" =>
                      detailed[Len(detailed)] = [code |-> code, url |-> res.url,
                                                 error |-> "", status |-> "updated"]
            ELSE /\ res = Failed("")
                 /\ caller = "list" => detailed[Len(detailed)].error = "unknown"
       ELSE /\ res = Failed(IF reply.kind = "error" THEN reply.message
                            ELSE "HTTP 500: Invalid customer code")
            /\ caller = "list" => detailed[Len(detailed)].error = res.error

\* C14: whenever the link of the top-scored item of a search response holds
\* a blocklisted domain, searchGoogleCSE returns null, whatever bonuses the
\* item earned.
C14_BlocklistDisqualifies ==
  (call # Null /\ call.fn = "searchGoogleCSE" /\ call.items # <<>> /\ ret # <<>>
     /\ \E k \in DOMAIN badDomains : Includes(scoreItems(call.items)[1].url, badDomains[k]))
    => ret[1] = Null

\* C15: searchGoogleCSE ranks the items of a response by descending score
\* and, among items with the same score, in the provider's order: the item
\* at position k of the response stands in allResults after every item that
\* scores more and every earlier item that scores the same; the first of
\* the ranking is the one whose host is returned.
C15_StableRanking ==
  (call # Null /\ call.fn = "searchGoogleCSE" /\ ret # <<>> /\ ret[1] # Null) =>
    /\ Len(ret[1].allResults) = Len(call.items)
    /\ \A k \in DOMAIN call.items :
         ret[1].allResults[
           1 + Cardinality({j \in DOMAIN call.items :
                              \/ scoreItem(call.items[j]) > scoreItem(call.items[k])
                              \/ /\ scoreItem(call.items[j]) = scoreItem(call.items[k])
                                 /\ j < k})] = call.items[k].link
    /\ \E k \in DOMAIN call.items :
         /\ \A j \in DOMAIN call.items :
              /\ scoreItem(call.items[j]) <= scoreItem(call.items[k])
              /\ j < k => scoreItem(call.items[j]) < scoreItem(call.items[k])
         /\ ret[1].url = normalizeDomain(URLHostname(call.items[k].link).hostname, call.forceWww)

\* two items with different links and the same score were ranked
C15_Witness ==
  /\ call # Null /\ call.fn = "searchGoogleCSE" /\ ret # <<>> /\ ret[1] # Null
  /\ Len(call.items) = 2
  /\ call.items[1].link # call.items[2].link
  /\ scoreItem(call.items[1]) = scoreItem(call.items[2])
  /\ ret[1].allResults[1] = call.items[1].link

\* C16: generateDomainPatterns("4Print Wraps, Inc.", "Glenburnie") with the
\* www policy on returns a duplicate-free list that holds
\* www.4printwraps.com, www.4-print-wraps.com, www.printwraps.com,
\* www.glenburnie4printwraps.com and www.4printwrapsglenburnie.com.
C16_PatternsOfExample ==
  (call # Null /\ call.fn = "generateDomainPatterns" /\ ret # <<>>
     /\ call.companyName = <<"4","P","r","i","n","t"," ","W","r","a","p","s",","," ","I","n","c",".">>
     /\ call.city = <<"G","l","e","n","b","u","r","n","i","e">>
     /\ call.forceWww) =>
    /\ \A j, k \in DOMAIN ret[1] : ret[1][j] = ret[1][k] => j = k
    /\ \A name \in {<<"4","p","r","i","n","t","w","r","a","p","s">>,
                    <<"4","-","p","r","i","n","t","-","w","r","a","p","s">>,
                    <<"p","r","i","n","t","w","r","a","p","s">>,
                    <<"g","l","e","n","b","u","r","n","i","e","4","p","r","i","n","t","w","r","a","p","s">>,
                    <<"4","p","r","i","n","t","w","r","a","p","s","g","l","e","n","b","u","r","n","i","e">>} :
         \E k \in DOMAIN ret[1] : ret[1][k] = S_www \o name \o S_dotcom

\* C17: for every non-empty string s and either www policy,
\* normalizeDomain applied to normalizeDomain(s) returns normalizeDomain(s).
C17_NormalizeIdempotent ==
  (call # Null /\ call.fn = "normalizeDomain" /\ call.url # <<>> /\ Len(ret) = 2) =>
    ret[2] = ret[1]

\* C18: guessDomain takes the candidates in order, one at a time, each
\* starting with its name lookup; the HTTP probe of a candidate is issued
\* only by the step in which the lookup of that candidate returned true;
\* the candidate guessDomain returns is the one both of whose probes passed,
\* with confidence high and source domain_guess, and no candidate is probed
\* after it; guessDomain returns null only when every candidate was tried.
C18_ProbingOrder ==
  /\ [](/\ pc \in {"dns", "http"} => (pidx \in 1..Len(patterns) /\ tiers = <<>>)
        /\ pc = "http" => lookup = "resolved"
        /\ (tiers # <<>> /\ tiers[1].tier = "domain_guess") =>
             IF tiers[1].candidate # Null
             THEN tiers[1].candidate = [url |-> patterns[pidx], confidence |-> "high",
                                        source |-> "domain_guess"]
             ELSE pidx = Len(patterns))
  /\ [][/\ pc' = "http" => (pc = "dns" /\ pidx' = pidx /\ lookup' = "resolved")
        /\ pidx' # pidx =>
             \/ pidx' = 0 /\ pc' = "getCustomer"
             \/ /\ pidx' = pidx + 1 /\ pc' = "dns" /\ tiers = <<>>
                /\ pidx # 0 => pc \in {"dns", "http"}]_vars

\* the second candidate was returned after the first one failed a probe
C18_Witness ==
  /\ tiers # <<>> /\ tiers[1].tier = "domain_guess" /\ tiers[1].candidate # Null
  /\ pidx = 2 /\ tiers[1].candidate.url = patterns[2]

\* C19: at any moment at most one external call of the record is
\* outstanding.  The call processCustomer awaits (getCustomer, a name
\* lookup, an HTTP probe, the search, the completion, saveCustomer) is
\* outstanding, and so is a dns.resolve that lost the race of
\* checkDomainExists to its timeout: nothing cancels it.
C19_OneCallOutstanding ==
  (IF pc \in {"getCustomer", "dns", "http", "cse", "openai", "save", "save_new"} THEN 1 ELSE 0)
    + (IF lookup = "timeout" THEN 1 ELSE 0) <= 1

\* C20: a step that takes the user's answer at a prompt of record i and
\* ends the record (the user declined: skip, a blank entry, no) leaves the
\* record skipped with no saveCustomer request sent; in a list the skip is
\* tallied, the loop moves to the next row, and every row the loop has not
\* reached yet is then fetched.
C20_DecliningSkipsLocally ==
  [][/\ (pc \in {"q_exists", "q_enter_new", "q_use", "q_manual", "q_confirm"}
           /\ pc' \in {"loop", "done"}) =>
          /\ res' = Skipped /\ calls'.save = 0 /\ lastSave' = Null
          /\ caller = "list" =>
               /\ pc' = "loop" /\ i' = i + 1 /\ rows' = rows
               /\ results'.skipped = results.skipped + 1
               /\ results'.updated = results.updated /\ results'.failed = results.failed
     /\ (pc = "loop" /\ i < Len(rows)) =>
          /\ pc' = "getCustomer" /\ code' = rows[i + 1].code
          /\ calls' = [NoCalls EXCEPT !.fetch = 1]]_vars

\* the user declined at a prompt of the first record and the second one is
\* being fetched
C20_Witness ==
  /\ caller = "list" /\ ~opts.nonInteractive
  /\ pc = "getCustomer" /\ i = 1 /\ res = Skipped
  /\ results.skipped = 1

\* C21: when getCustomer decodes a record without identifier, code and name
\* (every field is the empty string), no tier is invoked and no saveCustomer
\* request is sent for the record, and the record ends as failed.
C21_UnusableRecordFails ==
  (customer # Null /\ customer.id = <<>> /\ customer.code = <<>> /\ customer.name = <<>>) =>
    /\ tiers = <<>> /\ ~searched /\ pidx = 0 /\ patterns = <<>>
    /\ calls.search = 0 /\ calls.ai = 0 /\ calls.save = 0 /\ lastSave = Null
    /\ pc \in {"loop", "done"}
    /\ ~res.success /\ ~res.skipped

\* C22: whatever a tier's external call ends with (a lookup or probe that
\* misses or times out, a search or completion response that is an error,
\* empty, unparseable or the sentinel), the step that takes it never ends
\* the run and never fails the record: if the record ends in that step it
\* is skipped and the failed counter is unchanged; a tier that returned null
\* is followed by the next enabled tier, and after the last one findWebsite
\* returns null.
C22_TierFailuresStayInside ==
  [][(pc \in {"dns", "http", "cse", "openai"}) =>
       (/\ pc' # "fatal"
        /\ pc' \in {"loop", "done"} => res' = Skipped
        /\ caller = "list" => (results'.failed = results.failed /\ pc' # "done")
        /\ (tiers' # tiers /\ tiers'[Len(tiers')].candidate = Null) =>
             (IF pc' = "cse" THEN pc \in {"dns", "http"} /\ CONFIG.enableGoogleSearch
              ELSE IF pc' = "openai" THEN CONFIG.enableOpenAI
              ELSE (/\ searched' /\ result' = Null
                    /\ tiers'[Len(tiers')].tier # "openai" => ~CONFIG.enableOpenAI
                    /\ tiers'[Len(tiers')].tier = "domain_guess" =>
                         ~CONFIG.enableGoogleSearch)))
    ]_vars

\* guessDomain and searchGoogleCSE both returned null and the completion is
\* awaited
C22_Witness ==
  /\ pc = "openai" /\ Len(tiers) = 2
  /\ tiers[1] = [tier |-> "domain_guess", candidate |-> Null]
  /\ tiers[2] = [tier |-> "google_cse", candidate |-> Null]
  /\ calls.search = 1 /\ lookup = "none"

\* C23: in unattended mode, when the row pins no website and findWebsite
\* has returned null, the record has ended as skipped, no saveCustomer
\* request was sent and no prompt was issued, with or without force.
C23_NoCandidateUnattended ==
  (opts # Null /\ opts.nonInteractive /\ ~Truthy(website) /\ searched /\ result = Null) =>
    /\ pc \in {"loop", "done"} /\ res = Skipped
    /\ calls.save = 0 /\ lastSave = Null /\ calls.prompt = 0
    /\ websiteUrl = Undefined

\* findWebsite returned null in an unattended run with force, after all
\* three tiers had returned null
C23_Witness ==
  /\ opts # Null /\ opts.nonInteractive /\ opts.force /\ ~Truthy(website)
  /\ searched /\ result = Null /\ Len(tiers) = 3 /\ res = Skipped

C25_OpenaiResult ==
  (call # Null /\ call.fn = "searchWithOpenAI" /\ ret # <<>>) =>
    IF call.response.kind # "json" THEN ret[1] = Null
    ELSE IF \E k \in 1..Len(call.response.content) :
              OccursAt(call.response.content, S_NOT_FOUND, k)
         THEN ret[1] = Null
         ELSE /\ ret[1] # Null
              /\ ret[1].confidence = "medium" /\ ret[1].source = "openai"
              /\ ret[1].url = normalizeDomain(Trim(call.response.content), call.forceWww)

\* a response that holds the sentinel inside a sentence gave null
C25_Witness ==
  /\ call # Null /\ call.fn = "searchWithOpenAI" /\ ret = <<Null>>
  /\ call.response.kind = "json"
  /\ Len(call.response.content) > Len(S_NOT_FOUND)

\* C26 (as stated): with the scores +10 (.com in the link), +5 (official or
\* home in the title), +5 (official website in the snippet) and -20 (a
\* blocklisted domain in the link), searchGoogleCSE returns null when the
\* response has no items or the top score is negative, and otherwise the
\* normalized hostname of the top-scored item with confidence high when its
\* score is at least 10 and medium otherwise.
C26_SearchResult ==
  (call # Null /\ call.fn = "searchGoogleCSE" /\ ret # <<>>) =>
    LET score(item) ==
          (IF Includes(item.link, <<".","c","o","m">>) THEN 10 ELSE 0)
          + (IF Includes(ToLowerCase(item.title), <<"o","f","f","i","c","i","a","l">>)
                \/ Includes(ToLowerCase(item.title), <<"h","o","m","e">>) THEN 5 ELSE 0)
          + (IF Includes(ToLowerCase(item.snippet),
                         <<"o","f","f","i","c","i","a","l"," ","w","e","b","s","i","t","e">>)
             THEN 5 ELSE 0)
          - (IF \E b \in DOMAIN badDomains : Includes(item.link, badDomains[b]) THEN 20 ELSE 0)
    IN IF call.items = <<>> \/ \A k \in DOMAIN call.items : score(call.items[k]) < 0
       THEN ret[1] = Null
       ELSE \E k \in DOMAIN call.items :
              /\ \A j \in DOMAIN call.items :
                   /\ score(call.items[j]) <= score(call.items[k])
                   /\ j < k => score(call.items[j]) < score(call.items[k])
              /\ ret[1] # Null
              /\ ret[1].source = "google_cse"
              /\ ret[1].confidence = IF score(call.items[k]) >= 10 THEN "high" ELSE "medium"
              /\ ret[1].url = normalizeDomain(URLHostname(call.items[k].link).hostname,
                                              call.forceWww)

\* C26 (amended): as C26, and searchGoogleCSE also returns null when the
\* link of the top-scored item is not a URL that new URL accepts.
C26_SearchResultOfParsedLink ==
  (call # Null /\ call.fn = "searchGoogleCSE" /\ ret # <<>>) =>
    LET score(item) ==
          (IF Includes(item.link, <<".","c","o","m">>) THEN 10 ELSE 0)
          + (IF Includes(ToLowerCase(item.title), <<"o","f","f","i","c","i","a","l">>)
                \/ Includes(ToLowerCase(item.title), <<"h","o","m","e">>) THEN 5 ELSE 0)
          + (IF Includes(ToLowerCase(item.snippet),
                         <<"o","f","f","i","c","i","a","l"," ","w","e","b","s","i","t","e">>)
             THEN 5 ELSE 0)
          - (IF \E b \in DOMAIN badDomains : Includes(item.link, badDomains[b]) THEN 20 ELSE 0)
    IN IF call.items = <<>> \/ \A k \in DOMAIN call.items : score(call.items[k]) < 0
       THEN ret[1] = Null
       ELSE \E k \in DOMAIN call.items :
              /\ \A j \in DOMAIN call.items :
                   /\ score(call.items[j]) <= score(call.items[k])
                   /\ j < k => score(call.items[j]) < score(call.items[k])
              /\ IF ~URLHostname(call.items[k].link).ok THEN ret[1] = Null
                 ELSE /\ ret[1] # Null
                      /\ ret[1].source = "google_cse"
                      /\ ret[1].confidence =
                           IF score(call.items[k]) >= 10 THEN "high" ELSE "medium"
                      /\ ret[1].url =
                           normalizeDomain(URLHostname(call.items[k].link).hostname,
                                           call.forceWww)

\* a top item scoring 5 was returned with confidence medium behind an item
\* with a negative score
C26_Witness ==
  /\ call # Null /\ call.fn = "searchGoogleCSE" /\ ret # <<>> /\ ret[1] # Null
  /\ Len(call.items) = 2
  /\ scoreItem(call.items[1]) < 0 /\ scoreItem(call.items[2]) = 5
  /\ ret[1].confidence = "medium"
  /\ ret[1].allResults[1] = call.items[2].link

\* C27 (as stated): in unattended mode, for a row without a pinned website
\* whose record has an empty currentWebsite, once guessDomain has returned a
\* live candidate h exactly one saveCustomer request carrying h is sent, no
\* search or completion call is made, and the record ends as updated with
\* the detailed row code, updated, h and no error.
C27_ScenarioA ==
  (opts # Null /\ opts.nonInteractive /\ ~Truthy(website)
     /\ customer # Null /\ customer.currentWebsite = <<>>
     /\ tiers # <<>> /\ tiers[1].tier = "domain_guess" /\ tiers[1].candidate # Null) =>
    /\ Len(tiers) = 1 /\ calls.search = 0 /\ calls.ai = 0 /\ calls.prompt = 0
    /\ calls.save = 1 /\ lastSave.website = tiers[1].candidate.url
    /\ pc \in {"save", "loop", "done"}
    /\ pc # "save" =>
         /\ res = Updated(tiers[1].candidate.url)
         /\ detailed # <<>>
         /\ detailed[Len(detailed)] = [code |-> code, url |-> tiers[1].candidate.url,
                                       error |-> "", status |-> "updated"]

\* C27 (amended): as C27, but the record ends as updated, with that detailed
\* row, when the response to the request is a 2xx response holding the
\* success marker; after any other response the record ends as failed.
C27_ScenarioAWhenSaved ==
  (opts # Null /\ opts.nonInteractive /\ ~Truthy(website)
     /\ customer # Null /\ customer.currentWebsite = <<>>
     /\ tiers # <<>> /\ tiers[1].tier = "domain_guess" /\ tiers[1].candidate # Null) =>
    /\ Len(tiers) = 1 /\ calls.search = 0 /\ calls.ai = 0 /\ calls.prompt = 0
    /\ calls.save = 1 /\ lastSave.website = tiers[1].candidate.url
    /\ normalizedUrl = tiers[1].candidate.url
    /\ pc \in {"save", "loop", "done"}
    /\ (pc = "save") <=> (reply = Null)
    /\ reply # Null =>
         IF reply.kind = "http" /\ reply.status \in 200..299
            /\ Includes(ToLowerCase(reply.data),
                        <<"s","a","v","e","c","u","s","t","o","m","e","r","r","e","s","u","l","t">>)
         THEN /\ res = Updated(tiers[1].candidate.url)
              /\ detailed # <<>>
              /\ detailed[Len(detailed)] = [code |-> code, url |-> tiers[1].candidate.url,
                                            error |-> "", status |-> "updated"]
              /\ outFile # Null =>
                   outFile.lines[Len(detailed)] =
                     [code |-> code, status |-> "updated",
                      url |-> tiers[1].candidate.url, error |-> ""]
         ELSE ~res.success /\ ~res.skipped

\* the results file holds the line WE01, updated, www.webowers.com
C27_Witness ==
  /\ opts # Null /\ opts.nonInteractive /\ ~Truthy(website)
  /\ customer # Null /\ customer.currentWebsite = <<>>
  /\ tiers = <<[tier |-> "domain_guess",
               candidate |-> [url |-> <<"w","w","w",".","w","e","b","o","w","e","r","s",".","c","o","m">>,
                              confidence |-> "high", source |-> "domain_guess"]]>>
  /\ outFile # Null
  /\ outFile.lines[Len(outFile.lines)] =
       [code |-> Code_WE01, status |-> "updated",
        url |-> <<"w","w","w",".","w","e","b","o","w","e","r","s",".","c","o","m">>, error |-> ""]

\* C28: whenever a --file or --codes run given --output has completed its
\* list, the results file is written: its header is code, status, url, error
\* and it holds one line per detailed result.
C28_ResultsFileWritten ==
  (pc = "done" /\ caller = "list" /\ args.output /\ args.mode \in {"file", "codes"}) =>
    /\ outFile # Null
    /\ outFile.header = <<"code", "status", "url", "error">>
    /\ Len(outFile.lines) = Len(detailed)

\* C29: once processCustomerList or a single processCustomer has started, no
\* step changes any field of CONFIG: the fetch, the tiers, the prompts and
\* the persist of every record, and the end of the run, leave it as main set it.
C29_ConfigReadOnly ==
  [][(caller # "none") => (CONFIG' = CONFIG)]_vars

\* a two-record list has been processed to its end, with a search and a
\* persist made, under a CONFIG that main changed from the command line
C29_Witness ==
  /\ pc = "done" /\ caller = "list" /\ results.total = 2 /\ i = 2
  /\ ~CONFIG.forceWww /\ CONFIG.enableGoogleSearch
  /\ calls.search = 1 /\ calls.save = 1

\* C30: at every step of processCustomerList none of updated, skipped and
\* failed decreases, a step that completes a record adds one to exactly one
\* of them and every other step leaves all three alone, and after the step
\* their sum is the number of records completed so far, at most total.
C30_RunningTally ==
  [][(caller = "list") =>
       (/\ results'.total = results.total
        /\ results'.updated >= results.updated
        /\ results'.skipped >= results.skipped
        /\ results'.failed >= results.failed
        /\ i' \in {i, i + 1}
        /\ (i' = i) => (results' = results)
        /\ (i' = i + 1) =>
             (\E k \in {"updated", "skipped", "failed"} :
                results' = [results EXCEPT ![k] = @ + 1])
        /\ results'.updated + results'.skipped + results'.failed = i'
        /\ i' <= results'.total)
    ]_vars

\* the second record of a two-row list is being processed after the first
\* one was skipped
C30_Witness ==
  /\ caller = "list" /\ results.total = 2 /\ i = 1
  /\ results.skipped = 1 /\ results.updated = 0 /\ results.failed = 0
  /\ pc = "save"

\* C31: processCustomerList issues the getCustomer request of row i + 1 only
\* at its loop head, when the i rows before it have returned and been
\* tallied, and for that row's code; within a record a tier is called only
\* after getCustomer has returned the record and before any saveCustomer
\* request, and a saveCustomer request is sent only after getCustomer has
\* returned and is followed by no tier call.
C31_OneAtATimeInOrder ==
  [][/\ (caller' = "list" /\ pc' = "getCustomer" /\ pc # "getCustomer") =>
          (/\ pc = "loop" /\ i < Len(rows) /\ i' = i
           /\ code' = rows[i + 1].code
           /\ Len(tiers') = 0 /\ calls'.save = 0
           /\ results.updated + results.skipped + results.failed = i)
     /\ (caller = "list" /\ pc # "loop") => (code' = code /\ i' \in {i, i + 1})
     /\ (pc' \in {"dns", "http", "cse", "openai"}) =>
          (/\ pc \notin {"loop", "save", "save_new"}
           /\ customer' # Null /\ calls'.fetch = 1 /\ calls'.save = 0)
     /\ (calls'.save > calls.save) =>
          (/\ customer' # Null /\ calls.fetch = 1 /\ calls.save = 0
           /\ pc' \in {"save", "save_new"})
     /\ (pc \in {"save", "save_new"}) => (pc' \in {"loop", "done"})
    ]_vars

\* the second row of a list of two different codes has had its record
\* fetched and a search made, and its saveCustomer request is outstanding
C31_Witness ==
  /\ caller = "list" /\ Len(rows) = 2 /\ rows[1].code # rows[2].code
  /\ i = 1 /\ code = rows[2].code
  /\ calls.search = 1 /\ pc = "save"

\* C32: for every record exactly one getCustomer request is issued and at
\* most one saveCustomer request is sent; a saveCustomer request is sent
\* only after getCustomer has returned the record, and a record that ends
\* as updated (success and not skipped) had its saveCustomer request sent
\* and answered by a 2xx response holding the success marker.
C32_OneFetchOnePersist ==
  /\ calls.fetch <= 1 /\ calls.save <= 1
  /\ (pc \in {"getCustomer", "q_exists", "q_enter_new", "save_new", "dns", "http", "cse",
             "openai", "q_use", "q_manual", "q_confirm", "save"}) => calls.fetch = 1
  /\ (calls.save = 0) <=> (lastSave = Null)
  /\ calls.save = 1 => (calls.fetch = 1 /\ customer # Null)
  /\ reply # Null => calls.save = 1
  /\ (calls.fetch = 1 /\ pc \in {"loop", "done"} /\ res.success /\ ~res.skipped) =>
       /\ calls.save = 1 /\ reply # Null
       /\ reply.kind = "http" /\ reply.status \in 200..299
       /\ Includes(ToLowerCase(reply.data),
                   <<"s","a","v","e","c","u","s","t","o","m","e","r","r","e","s","u","l","t">>)

\* a record ended as failed after its only saveCustomer request was
\* answered by a 2xx response without the success marker
C32_Witness ==
  /\ calls.fetch = 1 /\ calls.save = 1 /\ pc \in {"loop", "done"}
  /\ reply # Null /\ reply.kind = "http" /\ reply.status = 200
  /\ ~res.success /\ ~res.skipped

\* C33: in nonInteractive mode without force, a record for which
\* searchWithOpenAI returned a candidate (every tier before it having
\* returned null) ends as skipped: no saveCustomer request is sent for it
\* and no prompt is shown.
C33_AiCandidateNotPersisted ==
  (opts # Null /\ opts.nonInteractive /\ ~opts.force
     /\ \E k \in 1..Len(tiers) : tiers[k].tier = "openai" /\ tiers[k].candidate # Null) =>
    /\ \A k \in 1..Len(tiers) : tiers[k].candidate # Null => tiers[k].tier = "openai"
    /\ result.source = "openai" /\ result.confidence = "medium"
    /\ calls.save = 0 /\ lastSave = Null /\ calls.prompt = 0
    /\ pc \in {"loop", "done"}
    /\ res = Skipped

\* after domain guessing and the search returned null, the AI tier returned
\* a candidate in an unattended run without force and the record was skipped
C33_Witness ==
  /\ opts # Null /\ opts.nonInteractive /\ ~opts.force
  /\ Len(tiers) = 3 /\ tiers[3].tier = "openai" /\ tiers[3].candidate # Null
  /\ calls.ai = 1 /\ res = Skipped /\ pc = "loop"

\* C34: in nonInteractive mode without force, when searchGoogleCSE returns
\* the host of a top-ranked link that holds a blocklisted domain, the
\* candidate has medium confidence (the item scored 0, the most such a link
\* can score) and the record ends as skipped: no saveCustomer request is
\* sent for it and no prompt is shown.
C34_BlocklistedNotPersisted ==
  (opts # Null /\ opts.nonInteractive /\ ~opts.force
     /\ result # Null /\ result.source = "google_cse"
     /\ \E k \in DOMAIN badDomains : Includes(result.allResults[1], badDomains[k])) =>
    /\ result.confidence = "medium"
    /\ calls.save = 0 /\ lastSave = Null /\ calls.prompt = 0
    /\ pc \in {"loop", "done"}
    /\ res = Skipped

\* the search returned facebook.com, from a blocklisted link that earned
\* every bonus, in an unattended run without force and the record was skipped
C34_Witness ==
  /\ opts # Null /\ opts.nonInteractive /\ ~opts.force
  /\ result # Null /\ result.source = "google_cse"
  /\ Includes(result.allResults[1], badDomains[1])
  /\ Includes(result.url, badDomains[1])
  /\ res = Skipped /\ pc = "loop"

\* C35: in a nonInteractive run without force, when getCustomer returns for
\* a row a record whose currentWebsite is the website persisted for the row
\* before it, a row of the same code that ended as updated, the row ends as
\* skipped at once: no prompt, no tier call and no saveCustomer request.
C35_ReprocessingSkipped ==
  [][(/\ pc = "getCustomer" /\ caller = "list" /\ opts.nonInteractive /\ ~opts.force
      /\ i >= 1 /\ rows[i].code = code
      /\ res.success /\ ~res.skipped /\ res.url # Undefined
      /\ customer' # Null
      /\ customer'.currentWebsite = ToLowerCase(res.url)) =>
       (/\ pc' \in {"loop", "done"} /\ res' = Skipped
        /\ calls'.save = 0 /\ lastSave' = Null /\ tiers' = <<>>
        /\ results'.skipped = results.skipped + 1
        /\ results'.updated = results.updated)
    ]_vars

\* C36: in interactive mode without force, for a record with a non-empty
\* currentWebsite, the answer s (trimmed, in any case) at the
\* existing-website prompt ends the record as skipped with no tier call and
\* no saveCustomer request; the answer e followed by a blank entry ends it
\* as skipped too; after any other answer the record is not skipped at the
\* prompt: the pinned website of its row is taken, or findWebsite is run.
C36_ExistingWebsitePrompt ==
  (opts # Null /\ ~opts.nonInteractive /\ ~opts.force /\ customer # Null
     /\ Trim(customer.currentWebsite) # <<>> /\ typed # <<>>) =>
    IF ToLowerCase(Trim(typed[1])) = <<"s">>
    THEN /\ Len(typed) = 1 /\ pc \in {"loop", "done"} /\ res = Skipped
         /\ tiers = <<>> /\ ~searched /\ calls.save = 0 /\ lastSave = Null
    ELSE IF ToLowerCase(Trim(typed[1])) = <<"e">>
    THEN /\ tiers = <<>> /\ ~searched /\ websiteUrl = Undefined
         /\ Len(typed) = 1 => pc = "q_enter_new"
         /\ (Len(typed) >= 2 /\ Trim(typed[2]) = <<>>) =>
              (/\ Len(typed) = 2 /\ pc \in {"loop", "done"} /\ res = Skipped
               /\ calls.save = 0 /\ lastSave = Null)
    ELSE /\ pc # "q_enter_new"
         /\ IF Truthy(website) THEN websiteUrl = website /\ tiers = <<>>
            ELSE pc \in {"dns", "http"} \/ tiers # <<>> \/ searched
         /\ (Len(typed) = 1 /\ pc \in {"loop", "done"}) => calls.save = 1

\* the existing-website prompt was answered o, the search found a
\* candidate, and the user accepted and confirmed it: the request is sent
C36_Witness ==
  /\ opts # Null /\ ~opts.nonInteractive /\ ~opts.force /\ customer # Null
  /\ customer.currentWebsite # <<>>
  /\ Len(typed) = 3 /\ typed[1] = <<"o">>
  /\ calls.search = 1 /\ pc = "save"

\* C37: for every record of a list that ends as updated, the last detailed
\* row is the record's, its url is the website carried by the record's
\* saveCustomer request, and that website is in lower case.
C37_RecordedUrlIsSentUrl ==
  (caller = "list" /\ pc \in {"loop", "done"} /\ calls.fetch = 1
     /\ res.success /\ ~res.skipped) =>
    /\ lastSave # Null
    /\ lastSave.website = ToLowerCase(lastSave.website)
    /\ detailed # <<>>
    /\ detailed[Len(detailed)].code = code
    /\ detailed[Len(detailed)].status = "updated"
    /\ detailed[Len(detailed)].url = lastSave.website

\* C38: when every await is answered, every record of a list that is
\* being processed is eventually returned and tallied, and
\* processCustomerList eventually returns its summary with
\* updated + skipped + failed = total; guessDomain never has more than five
\* candidates for a record.
C38_Termination ==
  /\ [](Len(patterns) <= 5 /\ pidx <= Len(patterns))
  /\ (caller = "list" /\ pc \notin {"loop", "done"})
       ~> (/\ caller = "list" /\ pc = "loop" /\ res # Null
           /\ results.updated + results.skipped + results.failed = i)
  /\ (caller = "list")
       ~> (/\ caller = "list" /\ pc = "done" /\ i = results.total
           /\ results.updated + results.skipped + results.failed = results.total)

\* processCustomerList has returned after guessDomain went through all
\* five candidates of the only record of its list
C38_Witness ==
  /\ caller = "list" /\ pc = "done" /\ results.total = 1 /\ i = 1
  /\ Len(patterns) = 5 /\ pidx = 5
  /\ Len(tiers) >= 2 /\ tiers[1].candidate = Null

\* C39: in websites.ts, in interactive list mode, an answer to the continue
\* prompt after record i that is not y (in either case, untrimmed) ends the
\* batch: the run is over with the step, no further record is fetched or
\* persisted (nothing happens after the end of the run), the counters are
\* left as they are and add up to i, which is less than total.
C39_StopEndsBatch ==
  [][/\ (pc = "q_continue" /\ typed' # typed
           /\ ToLowerCase(typed'[Len(typed')]) # <<"y">>)
        => (/\ caller = "list" /\ ~opts.nonInteractive
            /\ pc' = "done"
            /\ i' = i /\ code' = code /\ calls' = calls /\ lastSave' = lastSave
            /\ results' = results
            /\ results.updated + results.skipped + results.failed = i
            /\ i < results.total)
     /\ (pc = "done" => FALSE)]_vars

C39_Witness ==
  /\ pc = "done" /\ caller = "list" /\ ~opts.nonInteractive
  /\ i = 1 /\ results.total = 2
  /\ typed # <<>> /\ typed[Len(typed)] = <<" ","y">>
  /\ calls.fetch = 1 /\ code = rows[1].code

\* C40 as stated: in websites.ts, in unattended mode, a row without a
\* non-empty pinned website always ends as skipped with no persist sent.
C40_AlwaysSkipped ==
  (caller = "list" /\ opts.nonInteractive /\ pc \in {"loop", "done"} /\ i >= 1
     /\ ~(Truthy(rows[i].website) /\ Trim(rows[i].website) # <<>>))
    => (res = Skipped /\ calls.save = 0)

\* C40: in websites.ts, in unattended mode, a row without a non-empty
\* pinned website ends with no persist sent, as skipped or, when the fetch
\* of its record failed, as failed; and a persist is sent only for a row
\* that pins a non-empty website and whose record has an empty
\* currentWebsite unless force is set.
C40_UnattendedRows ==
  (caller = "list" /\ opts.nonInteractive)
    => /\ (pc \in {"loop", "done"} /\ i >= 1
             /\ ~(Truthy(rows[i].website) /\ Trim(rows[i].website) # <<>>))
            => /\ calls.save = 0
               /\ \/ res = Skipped
                  \/ (customer = Null /\ ~res.success /\ ~res.skipped)
       /\ (calls.save > 0)
            => /\ Truthy(website) /\ Trim(website) # <<>>
               /\ customer # Null
               /\ (customer.currentWebsite = <<>> \/ opts.force)

C40_Witness ==
  /\ caller = "list" /\ opts.nonInteractive /\ pc = "loop" /\ i = 1
  /\ rows[1].website = Undefined
  /\ customer = Null /\ ~res.success /\ ~res.skipped /\ calls.save = 0
  /\ results.failed = 1

====
